---- MODULE Spec2Model ----
(***************************************************************************)
(* A model of removarr's reconciliation, eligibility and deletion core.    *)
(*                                                                         *)
(* The relational store is PostgreSQL behind database/sql; it is modelled  *)
(* by its tables (sets of rows) and by the constraints of the migration:   *)
(* a statement fails exactly when the schema rejects it (a foreign key, a  *)
(* unique index, a value that is not valid input for the column's type).   *)
(* The external systems (media managers, request manager, torrent client,  *)
(* indexer manager, filesystem) are state of their own, and every call to  *)
(* one of them may fail: the outcome of each call is an input of the       *)
(* action that makes it.                                                   *)
(*                                                                         *)
(* Text is modelled as a sequence of one-character strings, so that SQL    *)
(* LIKE, string prefixes and string_to_array are computed as PostgreSQL    *)
(* and Go compute them.  Timestamps (added_date, last_synced_at, ...) are  *)
(* not modelled.  NULL in an integer column is the value NULL below.       *)
(***************************************************************************)
EXTENDS Integers, Sequences, FiniteSets, TLC

VARIABLES
    cfg,          \* the integrations that are enabled (non-nil clients)
    media_items,  \* table media_items
    media_seq,    \* the SERIAL behind media_items.id: the last value handed out
    torrents,     \* table torrents
    audit_logs,   \* table audit_logs, in insertion order
    seeding_overrides, \* table seeding_overrides
    passes,       \* the sync passes under way statement by statement
    session,      \* the torrent-client adapter's session and the client's side of it
    settings,     \* table settings
    scheduler,    \* the periodic scheduler: its timers and the clock
    sonarr,       \* media manager A: its series
    radarr,       \* media manager B: its movies
    overseerr,    \* request manager: its requests
    qbt,          \* torrent client: its torrents
    prowlarr,     \* indexer manager: its indexers
    disk,         \* filesystem: the entries that exist
    last          \* what the most recent call did and returned

vars == <<cfg, media_items, media_seq, torrents, audit_logs, seeding_overrides,
          passes, session, settings, scheduler, sonarr, radarr, overseerr, qbt, prowlarr, disk, last>>

external == <<sonarr, radarr, overseerr, qbt, prowlarr, disk>>

\* The adapter before its first call: no session cookie stored, none issued.
NoSession == [sid |-> "", live |-> {}, issued |-> 0, up |-> TRUE, accepts |-> TRUE]

(***************************************************************************)
(* Bounds of the model.                                                    *)
(***************************************************************************)
\* media_items.id never exceeds this: no pass runs that would insert past it.
MaxMediaID == 3
\* The largest seeding time / required time (seconds) and ratio (hundredths).
MaxStat == 1

NULL == -1

(***************************************************************************)
(* Text.                                                                   *)
(***************************************************************************)
Empty == << >>

IsPrefix(p, s) == Len(p) <= Len(s) /\ SubSeq(s, 1, Len(p)) = p

RECURSIVE Like(_, _)
\* s LIKE pat: '%' matches any run of characters, '_' any one character.
Like(s, pat) ==
    IF pat = Empty THEN s = Empty
    ELSE IF Head(pat) = "%"
         THEN Like(s, Tail(pat)) \/ (s # Empty /\ Like(Tail(s), pat))
    ELSE IF s = Empty THEN FALSE
    ELSE (Head(pat) = "_" \/ Head(pat) = Head(s)) /\ Like(Tail(s), Tail(pat))

RECURSIVE string_to_array(_, _)
\* string_to_array(s, sep) for a one-character separator: the fields of s.
string_to_array(s, sep) ==
    IF \A i \in 1..Len(s) : s[i] # sep THEN {s}
    ELSE LET i == CHOOSE k \in 1..Len(s) :
                     s[k] = sep /\ \A j \in 1..(k - 1) : s[j] # sep
         IN  {SubSeq(s, 1, i - 1)} \cup string_to_array(SubSeq(s, i + 1, Len(s)), sep)

(***************************************************************************)
(* The store.                                                              *)
(***************************************************************************)
\* users.id of the accounts that exist (table users).
users == {1}

MediaRow(id, title, type, tmdb, tvdb, sid, rid, path, size) ==
    [id |-> id, title |-> title, type |-> type, tmdb_id |-> tmdb, tvdb_id |-> tvdb,
     sonarr_id |-> sid, radarr_id |-> rid,
     overseerr_request_id |-> NULL, requested_by_user_id |-> NULL,
     file_path |-> path, file_size |-> size]

\* The rows of a table ordered by id, as a sequence (the order a remote list
\* is returned in: by the remote system's id).
RECURSIVE ById(_)
ById(S) ==
    IF S = {} THEN << >>
    ELSE LET x == CHOOSE y \in S : \A z \in S : y.id <= z.id
         IN  <<x>> \o ById(S \ {x})

Blank ==
    [op |-> "init", id |-> NULL, found |-> FALSE, ret |-> "nil",
     eligible |-> FALSE, reason |-> "", calls |-> << >>, nth |-> 0, changed |-> {}]

(***************************************************************************)
(* Reconciliation: media managers.                                         *)
(***************************************************************************)
\* UpsertSonarr with the manager id left out of the inserted row.
UpsertSonarrNoManagerID(st, ser) ==
    [items |-> st.items \cup
         {MediaRow(st.seq + 1, ser.title, "series", NULL, ser.tvdbId,
                   NULL, NULL, ser.path, ser.size)},
     seq |-> st.seq + 1]

\* UpsertSonarr as a plain INSERT, with no unique index to conflict with.
UpsertSonarrNoConflict(st, ser) ==
    [items |-> st.items \cup
         {MediaRow(st.seq + 1, ser.title, "series", NULL, ser.tvdbId,
                   ser.id, NULL, ser.path, ser.size)},
     seq |-> st.seq + 1]

\* INSERT INTO media_items ... ON CONFLICT (sonarr_id) WHERE sonarr_id IS NOT NULL
\* DO UPDATE SET title, file_path, file_size (unique_sonarr_id).
UpsertSonarr(st, ser) ==
    LET clash == {m \in st.items : m.sonarr_id = ser.id}
    IN  IF clash = {}
        THEN [items |-> st.items \cup
                 {MediaRow(st.seq + 1, ser.title, "series", NULL, ser.tvdbId,
                           ser.id, NULL, ser.path, ser.size)},
              seq |-> st.seq + 1]
        ELSE [items |-> {IF m \in clash
                         THEN [m EXCEPT !.title = ser.title, !.file_path = ser.path,
                                        !.file_size = ser.size]
                         ELSE m : m \in st.items},
              seq |-> st.seq + 1]

\* UpsertRadarr inserting the movie's manager id into sonarr_id as well.
UpsertRadarrBothManagerIDs(st, movie) ==
    [items |-> st.items \cup
         {MediaRow(st.seq + 1, movie.title, "movie", movie.tmdbId, NULL,
                   movie.id, movie.id, movie.path, movie.size)},
     seq |-> st.seq + 1]

\* The same statement of SyncFromRadarr (unique_radarr_id).
UpsertRadarr(st, movie) ==
    LET clash == {m \in st.items : m.radarr_id = movie.id}
    IN  IF clash = {}
        THEN [items |-> st.items \cup
                 {MediaRow(st.seq + 1, movie.title, "movie", movie.tmdbId, NULL,
                           NULL, movie.id, movie.path, movie.size)},
              seq |-> st.seq + 1]
        ELSE [items |-> {IF m \in clash
                         THEN [m EXCEPT !.title = movie.title, !.file_path = movie.path,
                                        !.file_size = movie.size]
                         ELSE m : m \in st.items},
              seq |-> st.seq + 1]

\* UpdateMedia writing the whole row anew, the request linkage with it.
UpdateMediaResetsLinkage(st, existingID, title, path, size) ==
    [st EXCEPT !.items = {IF m.id = existingID
                          THEN [m EXCEPT !.title = title, !.file_path = path,
                                         !.file_size = size,
                                         !.overseerr_request_id = NULL,
                                         !.requested_by_user_id = NULL]
                          ELSE m : m \in st.items}]

\* UPDATE media_items SET title, file_path, file_size WHERE id = existingID.
UpdateMedia(st, existingID, title, path, size) ==
    [st EXCEPT !.items = {IF m.id = existingID
                          THEN [m EXCEPT !.title = title, !.file_path = path,
                                         !.file_size = size]
                          ELSE m : m \in st.items}]

\* SELECT id FROM media_items WHERE sonarr_id = $1: the ids found.
LookupSonarr(st, sid) == {m.id : m \in {x \in st.items : x.sonarr_id = sid}}

\* SELECT id FROM media_items WHERE radarr_id = $1: the ids found.
LookupRadarr(st, rid) == {m.id : m \in {x \in st.items : x.radarr_id = rid}}

\* One iteration of SyncFromSonarr's loop for the remote series ser.
SonarrItem(st, ser) ==
    LET found == LookupSonarr(st, ser.id)
    IN  IF found = {}
        THEN UpsertSonarr(st, ser)
        ELSE UpdateMedia(st, CHOOSE i \in found : TRUE, ser.title, ser.path, ser.size)

\* One iteration of SyncFromRadarr's loop for the remote movie movie.
RadarrItem(st, movie) ==
    LET found == LookupRadarr(st, movie.id)
    IN  IF found = {}
        THEN UpsertRadarr(st, movie)
        ELSE UpdateMedia(st, CHOOSE i \in found : TRUE, movie.title, movie.path,
                         movie.size)

RECURSIVE SonarrLoop(_, _)
SonarrLoop(st, list) ==
    IF list = << >> THEN st ELSE SonarrLoop(SonarrItem(st, Head(list)), Tail(list))

RECURSIVE RadarrLoop(_, _)
RadarrLoop(st, list) ==
    IF list = << >> THEN st ELSE RadarrLoop(RadarrItem(st, Head(list)), Tail(list))

\* SyncFromSonarr on store st; fetchOk is whether GetSeries answered.
SyncFromSonarrResult(st, fetchOk) ==
    IF "sonarr" \notin cfg THEN [st |-> st, ret |-> "err"]
    ELSE IF ~fetchOk THEN [st |-> st, ret |-> "err"]
    ELSE [st |-> SonarrLoop(st, ById(sonarr)), ret |-> "nil"]

\* SyncFromRadarr on store st; fetchOk is whether GetMovies answered.
SyncFromRadarrResult(st, fetchOk) ==
    IF "radarr" \notin cfg THEN [st |-> st, ret |-> "err"]
    ELSE IF ~fetchOk THEN [st |-> st, ret |-> "err"]
    ELSE [st |-> RadarrLoop(st, ById(radarr)), ret |-> "nil"]

Store == [items |-> media_items, seq |-> media_seq]

\* The ids of the rows of old that are different, or gone, in new.
Changed(old, new) == {m.id : m \in {x \in old : x \notin new}}

\* How many passes of op in a row this one makes (counted to 2).
Nth(op, ret) ==
    IF ret = "nil" /\ last.op = op /\ last.ret = "nil" THEN 2 ELSE 1

SyncFromSonarr(fetchOk) ==
    LET r == SyncFromSonarrResult(Store, fetchOk)
    IN  /\ r.st.seq <= MaxMediaID
        /\ media_items' = r.st.items
        /\ media_seq' = r.st.seq
        /\ last' = [Blank EXCEPT !.op = "SyncFromSonarr", !.ret = r.ret,
                                 !.nth = Nth("SyncFromSonarr", r.ret),
                                 !.changed = Changed(media_items, r.st.items)]
        /\ UNCHANGED <<cfg, seeding_overrides, passes, session, settings, scheduler, torrents, audit_logs, external>>

SyncFromRadarr(fetchOk) ==
    LET r == SyncFromRadarrResult(Store, fetchOk)
    IN  /\ r.st.seq <= MaxMediaID
        /\ media_items' = r.st.items
        /\ media_seq' = r.st.seq
        /\ last' = [Blank EXCEPT !.op = "SyncFromRadarr", !.ret = r.ret,
                                 !.nth = Nth("SyncFromRadarr", r.ret),
                                 !.changed = Changed(media_items, r.st.items)]
        /\ UNCHANGED <<cfg, seeding_overrides, passes, session, settings, scheduler, torrents, audit_logs, external>>

(***************************************************************************)
(* Reconciliation: request manager.                                        *)
(***************************************************************************)
\* The media type SyncOverseerrRequests works with for request req.
EffectiveType(req) ==
    LET t == IF req.mediaType = "" THEN req.nestedType ELSE req.mediaType
    IN  IF t = "tv" THEN "series" ELSE t

\* The ids the lookup of SyncOverseerrRequests may scan for req: the rows its
\* query selects, 0 (mediaItemID's zero value) when no query is made, and none
\* when the query finds no row.
RequestTargets(items, req) ==
    LET t == EffectiveType(req)
    IN  IF t = "movie" /\ req.tmdbId > 0
        THEN {m.id : m \in {x \in items : x.tmdb_id = req.tmdbId /\ x.type = "movie"}}
        ELSE IF t = "series" /\ req.tvdbId # NULL /\ req.tvdbId > 0
        THEN {m.id : m \in {x \in items : x.tvdb_id = req.tvdbId /\ x.type = "series"}}
        ELSE {0}

\* UPDATE media_items SET overseerr_request_id, requested_by_user_id WHERE id:
\* rejected when requested_by_user_id names no row of users.
LinkRequest(items, id, req) ==
    IF (\E m \in items : m.id = id) /\ req.requestedBy \notin users
    THEN items
    ELSE {IF m.id = id
          THEN [m EXCEPT !.overseerr_request_id = req.id,
                         !.requested_by_user_id = req.requestedBy]
          ELSE m : m \in items}

\* One iteration of SyncOverseerrRequests's loop: the stores it may leave.
OverseerrItem(items, req) ==
    LET ids == RequestTargets(items, req)
    IN  IF ids = {} THEN {items} ELSE {LinkRequest(items, id, req) : id \in ids}

RECURSIVE OverseerrLoop(_, _)
OverseerrLoop(items, list) ==
    IF list = << >> THEN {items}
    ELSE UNION {OverseerrLoop(it, Tail(list)) : it \in OverseerrItem(items, Head(list))}

\* SyncOverseerrRequests on the rows items: the results it may have.
SyncOverseerrRequestsResult(items, fetchOk) ==
    IF "overseerr" \notin cfg THEN {[items |-> items, ret |-> "nil"]}
    ELSE IF ~fetchOk THEN {[items |-> items, ret |-> "err"]}
    ELSE {[items |-> it, ret |-> "nil"] : it \in OverseerrLoop(items, ById(overseerr))}

SyncOverseerrRequests(fetchOk) ==
    \E r \in SyncOverseerrRequestsResult(media_items, fetchOk) :
        /\ media_items' = r.items
        /\ last' = [Blank EXCEPT !.op = "SyncOverseerrRequests", !.ret = r.ret,
                                 !.nth = Nth("SyncOverseerrRequests", r.ret),
                                 !.changed = Changed(media_items, r.items)]
        /\ UNCHANGED <<cfg, seeding_overrides, passes, session, settings, scheduler, media_seq, torrents, audit_logs, external>>

\* One stage of SyncAll as recorded: the pass called and what it returned.
Stage(op, ret) == [op |-> op, ret |-> ret]

\* SyncAll giving up at the first stage that fails.
SyncAllStopsAtFailure(okSonarr, okRadarr, okOverseerr) ==
    LET a == SyncFromSonarrResult(Store, okSonarr)
        b == IF a.ret = "nil" THEN SyncFromRadarrResult(a.st, okRadarr)
             ELSE [st |-> a.st, ret |-> "skipped"]
        cs == IF b.ret = "nil" THEN SyncOverseerrRequestsResult(b.st.items, okOverseerr)
              ELSE {[items |-> b.st.items, ret |-> "skipped"]}
    IN  \E c \in cs :
        /\ b.st.seq <= MaxMediaID
        /\ media_items' = c.items
        /\ media_seq' = b.st.seq
        /\ last' = [Blank EXCEPT !.op = "SyncAll",
                       !.ret = IF c.ret = "nil" THEN "nil" ELSE "err",
                       !.calls = <<Stage("SyncFromSonarr", a.ret),
                                   Stage("SyncFromRadarr", b.ret),
                                   Stage("SyncOverseerrRequests", c.ret)>>,
                       !.changed = Changed(media_items, c.items)]
        /\ UNCHANGED <<cfg, seeding_overrides, passes, session, settings, scheduler, torrents, audit_logs, external>>

\* SyncAll: the three passes in their order, each only if its client is set,
\* each one's error logged only.
SyncAll(okSonarr, okRadarr, okOverseerr) ==
    LET a == IF "sonarr" \in cfg THEN SyncFromSonarrResult(Store, okSonarr)
             ELSE [st |-> Store, ret |-> "skipped"]
        b == IF "radarr" \in cfg THEN SyncFromRadarrResult(a.st, okRadarr)
             ELSE [st |-> a.st, ret |-> "skipped"]
        cs == IF "overseerr" \in cfg
              THEN SyncOverseerrRequestsResult(b.st.items, okOverseerr)
              ELSE {[items |-> b.st.items, ret |-> "skipped"]}
    IN  \E c \in cs :
        /\ b.st.seq <= MaxMediaID
        /\ media_items' = c.items
        /\ media_seq' = b.st.seq
        /\ last' = [Blank EXCEPT !.op = "SyncAll", !.ret = "nil",
                       !.calls = SelectSeq(<<Stage("SyncFromSonarr", a.ret),
                                             Stage("SyncFromRadarr", b.ret),
                                             Stage("SyncOverseerrRequests", c.ret)>>,
                                           LAMBDA g : g.ret # "skipped"),
                       !.changed = Changed(media_items, c.items)]
        /\ UNCHANGED <<cfg, seeding_overrides, passes, session, settings, scheduler, torrents, audit_logs, external>>

(***************************************************************************)
(* Reconciliation: torrent client and indexer manager.                     *)
(***************************************************************************)
NullText == <<"<null>">>
NullStr == "<null>"

\* Strategy 1: SELECT id FROM media_items WHERE file_path = $1.
MatchExact(items, cp) == {m.id : m \in {x \in items : x.file_path = cp}}

\* Strategy 2: ... WHERE file_path LIKE $1 || '%' AND file_path != ''.
MatchContentIsPrefix(items, cp) ==
    {m.id : m \in {x \in items :
                      Like(x.file_path, cp \o <<"%">>) /\ x.file_path # Empty}}

\* Strategy 3: ... WHERE $1 LIKE file_path || '%' AND file_path != ''.
MatchLocalIsPrefix(items, cp) ==
    {m.id : m \in {x \in items :
                      Like(cp, x.file_path \o <<"%">>) /\ x.file_path # Empty}}

\* Strategy 4: ... WHERE file_path LIKE '%' || $1 || '%' AND file_path != ''
\* ORDER BY CASE WHEN file_path LIKE $1 || '%' THEN 1 ELSE 2 END, LENGTH(file_path).
MatchContains(items, cp) ==
    LET hit == {x \in items :
                   Like(x.file_path, <<"%">> \o cp \o <<"%">>) /\ x.file_path # Empty}
        rank(x) == IF Like(x.file_path, cp \o <<"%">>) THEN 1 ELSE 2
        before(x, y) == \/ rank(x) < rank(y)
                        \/ rank(x) = rank(y) /\ Len(x.file_path) <= Len(y.file_path)
    IN  {m.id : m \in {x \in hit : \A y \in hit : before(x, y)}}

\* The last resort: ... WHERE title = ANY(string_to_array($1, ' '))
\* OR $1 LIKE '%' || title || '%' ORDER BY CASE WHEN title = ANY(...) THEN 1 ELSE 2 END.
MatchByName(items, name) ==
    LET word(x) == x.title \in string_to_array(name, " ")
        hit == {x \in items : word(x) \/ Like(name, <<"%">> \o x.title \o <<"%">>)}
        rank(x) == IF word(x) THEN 1 ELSE 2
    IN  {m.id : m \in {x \in hit : \A y \in hit : rank(x) <= rank(y)}}

\* MatchByPath with the two prefix strategies in the other order.
MatchByPathLocalPrefixFirst(items, cp) ==
    IF cp = Empty THEN {}
    ELSE IF MatchExact(items, cp) # {} THEN MatchExact(items, cp)
    ELSE IF MatchLocalIsPrefix(items, cp) # {} THEN MatchLocalIsPrefix(items, cp)
    ELSE IF MatchContentIsPrefix(items, cp) # {} THEN MatchContentIsPrefix(items, cp)
    ELSE MatchContains(items, cp)

\* The chain of path strategies of one loop iteration: the ids LIMIT 1 may
\* return from the first strategy that selects a row, none if none does.
MatchByPath(items, cp) ==
    IF cp = Empty THEN {}
    ELSE IF MatchExact(items, cp) # {} THEN MatchExact(items, cp)
    ELSE IF MatchContentIsPrefix(items, cp) # {} THEN MatchContentIsPrefix(items, cp)
    ELSE IF MatchLocalIsPrefix(items, cp) # {} THEN MatchLocalIsPrefix(items, cp)
    ELSE MatchContains(items, cp)

\* The values mediaItemID may have after the matching of torrent t (NULL: not
\* valid).
ResolveMedia(items, t) ==
    LET byPath == MatchByPath(items, t.contentPath)
    IN  IF byPath # {} THEN byPath
        ELSE IF t.name # Empty /\ MatchByName(items, t.name) # {}
        THEN MatchByName(items, t.name)
        ELSE {NULL}

\* The known-public tracker prefixes of isPublicTracker.
publicTrackers ==
    {<<"1", "3", "3", "7", "x">>, <<"r", "a", "r", "b", "g">>,
     <<"t", "h", "e", "p", "i", "r", "a", "t", "e", "b", "a", "y">>,
     <<"t", "o", "r", "r", "e", "n", "t", "z">>, <<"k", "i", "c", "k", "a", "s", "s">>,
     <<"y", "t", "s">>, <<"e", "z", "t", "v">>, <<"n", "y", "a", "a">>}

isPublicTracker(trackerURL) ==
    \E public \in publicTrackers :
        /\ Len(trackerURL) > Len(public)
        /\ SubSeq(trackerURL, 1, Len(public)) = public

\* indexerMap: of the fetched indexers with one name, the last one listed.
IndexerMap(indexers) ==
    {i \in indexers : \A j \in indexers : j.name = i.name => j.id <= i.id}

\* Tracker id, name, type and required time and ratio of one iteration.
ResolveTracker(t, indexers) ==
    LET none == [tracker_id |-> NULL, tracker_name |-> NullText,
                 tracker_type |-> NullStr, seeding_required_seconds |-> NULL,
                 seeding_required_ratio |-> NULL]
        hit == {i \in IndexerMap(indexers) : i.name = t.tracker}
    IN  IF t.tracker = Empty \/ "prowlarr" \notin cfg THEN none
        ELSE IF hit # {}
        THEN LET i == CHOOSE x \in hit : TRUE
             IN  [tracker_id |-> i.id, tracker_name |-> i.name,
                  tracker_type |-> i.privacy,
                  seeding_required_seconds |-> i.minSeedTime,
                  seeding_required_ratio |-> i.minRatio]
        ELSE [none EXCEPT !.tracker_name = t.tracker,
                          !.tracker_type = IF isPublicTracker(t.tracker)
                                           THEN "public" ELSE "private"]

\* UpdatedLink writing the link resolved now whatever it is.
UpdatedLinkOverwrites(current, resolved) == resolved

\* The media_item_id the UPDATE of an existing row writes:
\* COALESCE($2, media_item_id), $2 being the link resolved now unless the row
\* already has that very link.
UpdatedLink(current, resolved) ==
    IF resolved # NULL
    THEN (IF current = NULL \/ current # resolved THEN resolved ELSE current)
    ELSE current

\* The row one loop iteration writes for torrent t: inserted, or updated.
TorrentRow(rows, t, resolved, indexers) ==
    LET tr == ResolveTracker(t, indexers)
        old == {r \in rows : r.hash = t.hash}
        link == IF old = {} THEN resolved
                ELSE UpdatedLink((CHOOSE r \in old : TRUE).media_item_id, resolved)
    IN  [hash |-> t.hash, media_item_id |-> link,
         tracker_id |-> tr.tracker_id, tracker_name |-> tr.tracker_name,
         tracker_type |-> tr.tracker_type,
         seeding_time_seconds |-> t.seedingTime, ratio |-> t.ratio,
         seeding_required_seconds |-> tr.seeding_required_seconds,
         seeding_required_ratio |-> tr.seeding_required_ratio,
         is_seeding |-> t.state \in {"uploading", "stalledUP"}]

\* One loop iteration of SyncFromQBittorrent: the tables it may leave.
TorrentItem(rows, items, t, indexers) ==
    {{r \in rows : r.hash # t.hash} \cup {TorrentRow(rows, t, resolved, indexers)} :
        resolved \in ResolveMedia(items, t)}

RECURSIVE TorrentLoop(_, _, _, _)
TorrentLoop(rows, items, list, indexers) ==
    IF list = {} THEN {rows}
    ELSE LET t == CHOOSE x \in list : TRUE
         IN  UNION {TorrentLoop(r, items, list \ {t}, indexers) :
                       r \in TorrentItem(rows, items, t, indexers)}

\* SyncFromQBittorrent: fetchOk is whether GetTorrents answered, indexersOk
\* whether GetIndexers did; last.calls keeps the answer of GetIndexers.
SyncFromQBittorrent(fetchOk, indexersOk) ==
    IF "qbittorrent" \notin cfg \/ ~fetchOk
    THEN /\ last' = [Blank EXCEPT !.op = "SyncFromQBittorrent", !.ret = "err"]
         /\ UNCHANGED <<cfg, seeding_overrides, passes, session, settings, scheduler, media_items, media_seq, torrents,
                        audit_logs, external>>
    ELSE LET indexers == IF "prowlarr" \in cfg /\ indexersOk THEN prowlarr ELSE {}
         IN  \E rows \in TorrentLoop(torrents, media_items, qbt, indexers) :
                /\ torrents' = rows
                /\ last' = [Blank EXCEPT !.op = "SyncFromQBittorrent", !.ret = "nil",
                               !.calls = IF "prowlarr" \notin cfg THEN << >>
                                         ELSE <<Stage("GetIndexers",
                                                      IF indexersOk THEN "nil" ELSE "err")>>,
                               !.changed = {r.hash : r \in {x \in torrents : x \notin rows}}]
                /\ UNCHANGED <<cfg, seeding_overrides, passes, session, settings, scheduler, media_items, media_seq,
                               audit_logs, external>>

(***************************************************************************)
(* Eligibility.                                                            *)
(***************************************************************************)
\* The rule for a tracker that is not public with is_seeding never asked.
checkPrivateTorrentIgnoresSeeding(torrent) ==
    IF torrent.seeding_required_seconds = NULL
    THEN [ok |-> FALSE, reason |-> "Infinite seeding time required"]
    ELSE IF torrent.seeding_time_seconds < torrent.seeding_required_seconds
    THEN [ok |-> FALSE, reason |-> "Seeding time < required"]
    ELSE IF /\ torrent.seeding_required_ratio # NULL
            /\ torrent.ratio < torrent.seeding_required_ratio
    THEN [ok |-> FALSE, reason |-> "Ratio < required"]
    ELSE [ok |-> TRUE, reason |-> "All requirements met"]

\* checkTorrentEligibility, the rule for a tracker that is not public.
checkPrivateTorrent(torrent) ==
    IF torrent.seeding_required_seconds = NULL
    THEN [ok |-> FALSE, reason |-> "Infinite seeding time required"]
    ELSE IF torrent.seeding_time_seconds < torrent.seeding_required_seconds
    THEN [ok |-> FALSE, reason |-> "Seeding time < required"]
    ELSE IF /\ torrent.seeding_required_ratio # NULL
            /\ torrent.ratio < torrent.seeding_required_ratio
    THEN [ok |-> FALSE, reason |-> "Ratio < required"]
    ELSE IF ~torrent.is_seeding
    THEN [ok |-> FALSE, reason |-> "Torrent is not currently seeding"]
    ELSE [ok |-> TRUE, reason |-> "All requirements met"]

\* checkTorrentEligibility with a public tracker's thresholds never checked.
checkTorrentEligibilityPublicAlways(torrent) ==
    IF torrent.tracker_type # NullStr /\ torrent.tracker_type = "public"
    THEN [ok |-> TRUE, reason |-> "Public tracker - eligible"]
    ELSE checkPrivateTorrent(torrent)

\* checkTorrentEligibility: whether the row passes, and the reason given.  The
\* shortfall reasons stand for the messages that name the two values.
checkTorrentEligibility(torrent) ==
    IF torrent.tracker_type # NullStr /\ torrent.tracker_type = "public"
    THEN IF /\ torrent.seeding_required_seconds # NULL
            /\ torrent.seeding_time_seconds < torrent.seeding_required_seconds
         THEN [ok |-> FALSE, reason |-> "Seeding time < required"]
         ELSE IF /\ torrent.seeding_required_ratio # NULL
                 /\ torrent.ratio < torrent.seeding_required_ratio
         THEN [ok |-> FALSE, reason |-> "Ratio < required"]
         ELSE [ok |-> TRUE, reason |-> "Public tracker - eligible"]
    ELSE checkPrivateTorrent(torrent)

\* SELECT ... FROM torrents WHERE media_item_id = $1.
LinkedTorrents(rows, mediaItemID) == {r \in rows : r.media_item_id = mediaItemID}

\* CheckEligibilityResult declaring eligible as soon as one torrent passes.
CheckEligibilityResultAnyPasses(items, rows, mediaItemID) ==
    LET linked == LinkedTorrents(rows, mediaItemID)
    IN  IF \A m \in items : m.id # mediaItemID
        THEN {[found |-> FALSE, ret |-> "err", eligible |-> FALSE, reason |-> ""]}
        ELSE IF \E t \in linked : checkTorrentEligibility(t).ok
        THEN {[found |-> TRUE, ret |-> "nil", eligible |-> TRUE,
               reason |-> "All seeding requirements met"]}
        ELSE {[found |-> TRUE, ret |-> "nil", eligible |-> FALSE,
               reason |-> "No torrents found for this media item"]}

\* CheckEligibility: the results it may return (the rows come in no stated
\* order, and the reason is that of the first row that fails).
CheckEligibilityResult(items, rows, mediaItemID) ==
    LET linked == LinkedTorrents(rows, mediaItemID)
        failing == {t \in linked : ~checkTorrentEligibility(t).ok}
    IN  IF \A m \in items : m.id # mediaItemID
        THEN {[found |-> FALSE, ret |-> "err", eligible |-> FALSE, reason |-> ""]}
        ELSE IF linked = {}
        THEN {[found |-> TRUE, ret |-> "nil", eligible |-> FALSE,
               reason |-> "No torrents found for this media item"]}
        ELSE IF failing = {}
        THEN {[found |-> TRUE, ret |-> "nil", eligible |-> TRUE,
               reason |-> "All seeding requirements met"]}
        ELSE {[found |-> TRUE, ret |-> "nil", eligible |-> FALSE,
               reason |-> checkTorrentEligibility(t).reason] : t \in failing}

CheckEligibility(mediaItemID) ==
    \E r \in CheckEligibilityResult(media_items, torrents, mediaItemID) :
        /\ last' = [Blank EXCEPT !.op = "CheckEligibility", !.id = mediaItemID,
                                 !.found = r.found, !.ret = r.ret,
                                 !.eligible = r.eligible, !.reason = r.reason]
        /\ UNCHANGED <<cfg, seeding_overrides, passes, session, settings, scheduler, media_items, media_seq, torrents,
                        audit_logs, external>>

(***************************************************************************)
(* Deletion.                                                               *)
(***************************************************************************)
\* The tables and external systems a deletion works on.
World ==
    [items |-> media_items, torrents |-> torrents, audit |-> audit_logs,
     sonarr |-> sonarr, radarr |-> radarr, overseerr |-> overseerr,
     qbt |-> qbt, disk |-> disk]

\* filepath.Dir: the path without its last element.
Dir(path) ==
    LET slashes == {k \in 1..Len(path) : path[k] = "/"}
    IN  IF slashes = {} THEN <<".">>
        ELSE LET k == CHOOSE x \in slashes : \A y \in slashes : y <= x
             IN  IF k = 1 THEN <<"/">> ELSE SubSeq(path, 1, k - 1)

\* Entry e of the filesystem lies below directory dir.
Below(dir, e) == IsPrefix(dir \o <<"/">>, e.path)

\* os.RemoveAll(path), and what the torrent client removes with a torrent.
RemoveAll(d, path) == {e \in d : e.path # path /\ ~Below(path, e)}

\* deleteFiles(filePath): fs is "fail" when the stat or the removal fails.
deleteFiles(d, filePath, fs) ==
    LET here == {e \in d : e.path = filePath}
        parent == Dir(filePath)
        gone == d \ here
    IN  IF here = {} THEN [disk |-> d, err |-> FALSE]
        ELSE IF fs = "fail" THEN [disk |-> d, err |-> TRUE]
        ELSE IF \E e \in here : e.dir
        THEN [disk |-> RemoveAll(d, filePath), err |-> FALSE]
        ELSE IF /\ \E e \in gone : e.path = parent /\ e.dir
                /\ \A e \in gone : ~Below(parent, e)
        THEN [disk |-> {e \in gone : e.path # parent}, err |-> FALSE]
        ELSE [disk |-> gone, err |-> FALSE]

\* One entry of the errors list of DeleteMediaItem.
Failure(step, what) == [step |-> step, what |-> what]

\* Step 2: delete the files, when the row has a path.
DeleteFilesStep(r, item, o) ==
    IF item.file_path = NullText \/ item.file_path = Empty THEN r
    ELSE LET d == deleteFiles(r.w.disk, item.file_path, o.fs)
         IN  IF d.err
             THEN [r EXCEPT !.errors = @ \cup {Failure("files", "")},
                            !.failed = @ \cup {"files"},
                            !.steps = Append(@, "deleteFiles")]
             ELSE [r EXCEPT !.w.disk = d.disk, !.steps = Append(@, "deleteFiles")]

\* DeleteSeries answered 200 by a media manager that keeps the series.
DeleteSeriesKeepsEntry(r, id, withFiles, addImportExclusion) ==
    [r EXCEPT !.steps = Append(@, "DeleteSeries")]

\* DELETE /series/{id}?deleteFiles=..&addImportExclusion=.. answered 200: the
\* manager drops the entry, removes its folder when deleteFiles (withFiles) is set and
\* puts it on its exclusion list when addImportExclusion is set.
DeleteSeries(r, id, withFiles, addImportExclusion) ==
    LET gone == {x \in r.w.sonarr : x.id = id}
    IN  [r EXCEPT !.w.sonarr = @ \ gone,
                  !.w.disk = IF withFiles
                             THEN {e \in @ : \A x \in gone :
                                      e.path # x.path /\ ~Below(x.path, e)}
                             ELSE @,
                  !.excluded = IF addImportExclusion THEN @ \cup {id} ELSE @,
                  !.steps = Append(@, "DeleteSeries")]

\* DELETE /movie/{id}?deleteFiles=..&addImportExclusion=.. answered 200.
DeleteMovie(r, id, withFiles, addImportExclusion) ==
    LET gone == {x \in r.w.radarr : x.id = id}
    IN  [r EXCEPT !.w.radarr = @ \ gone,
                  !.w.disk = IF withFiles
                             THEN {e \in @ : \A x \in gone :
                                      e.path # x.path /\ ~Below(x.path, e)}
                             ELSE @,
                  !.excluded = IF addImportExclusion THEN @ \cup {id} ELSE @,
                  !.steps = Append(@, "DeleteMovie")]

\* Step 3 recording a failure as soon as the delete fails, and not trying to
\* unmonitor.
DeleteFromManagerStepNoFallback(r, item, o) ==
    IF item.type = "series" /\ item.sonarr_id # NULL /\ "sonarr" \in cfg
    THEN IF o.mmDelete /\ \E x \in r.w.sonarr : x.id = item.sonarr_id
         THEN DeleteSeries(r, item.sonarr_id, FALSE, FALSE)
         ELSE [r EXCEPT !.errors = @ \cup {Failure("Sonarr", "")},
                        !.failed = @ \cup {"manager"},
                        !.steps = Append(@, "DeleteSeries")]
    ELSE IF item.type = "movie" /\ item.radarr_id # NULL /\ "radarr" \in cfg
    THEN IF o.mmDelete /\ \E x \in r.w.radarr : x.id = item.radarr_id
         THEN DeleteMovie(r, item.radarr_id, FALSE, FALSE)
         ELSE [r EXCEPT !.errors = @ \cup {Failure("Radarr", "")},
                        !.failed = @ \cup {"manager"},
                        !.steps = Append(@, "DeleteMovie")]
    ELSE r

\* Step 3: delete from the media manager, or unmonitor when that fails.  A
\* manager that no longer has the entry answers neither call.
DeleteFromManagerStep(r, item, o) ==
    IF item.type = "series" /\ item.sonarr_id # NULL /\ "sonarr" \in cfg
    THEN LET has == \E x \in r.w.sonarr : x.id = item.sonarr_id
         IN  IF o.mmDelete /\ has
             THEN DeleteSeries(r, item.sonarr_id, FALSE, FALSE)
             ELSE IF o.mmUnmonitor /\ has
             THEN [r EXCEPT !.steps = @ \o <<"DeleteSeries", "UnmonitorSeries">>]
             ELSE [r EXCEPT !.errors = @ \cup {Failure("Sonarr", "")},
                            !.failed = @ \cup {"manager"},
                            !.steps = @ \o <<"DeleteSeries", "UnmonitorSeries">>]
    ELSE IF item.type = "movie" /\ item.radarr_id # NULL /\ "radarr" \in cfg
    THEN LET has == \E x \in r.w.radarr : x.id = item.radarr_id
         IN  IF o.mmDelete /\ has
             THEN DeleteMovie(r, item.radarr_id, FALSE, FALSE)
             ELSE IF o.mmUnmonitor /\ has
             THEN [r EXCEPT !.steps = @ \o <<"DeleteMovie", "UnmonitorMovie">>]
             ELSE [r EXCEPT !.errors = @ \cup {Failure("Radarr", "")},
                            !.failed = @ \cup {"manager"},
                            !.steps = @ \o <<"DeleteMovie", "UnmonitorMovie">>]
    ELSE r

\* FindRequestByMediaID comparing the request's type with the item's type
\* only, 'tv' not taken for 'series'.
FindRequestByMediaIDNoTVMapping(reqs, tmdbID, tvdbID, mediaType) ==
    LET typeOf(req) == IF req.mediaType = "" THEN req.nestedType ELSE req.mediaType
        hits == {req \in reqs :
                    /\ typeOf(req) \in {"", mediaType}
                    /\ \/ mediaType = "movie" /\ tmdbID # NULL /\ req.tmdbId = tmdbID
                       \/ /\ mediaType = "series" /\ tvdbID # NULL
                          /\ req.tvdbId # NULL /\ req.tvdbId = tvdbID}
    IN  IF hits = {} THEN NULL ELSE Head(ById(hits)).id

\* FindRequestByMediaID: the id of the first request listed that matches, or
\* NULL when none does.
FindRequestByMediaID(reqs, tmdbID, tvdbID, mediaType) ==
    LET expectedType == IF mediaType = "series" THEN "tv" ELSE mediaType
        typeOf(req) == IF req.mediaType = "" THEN req.nestedType ELSE req.mediaType
        typeMatches(req) == typeOf(req) \in {"", expectedType, mediaType}
        hits == {req \in reqs :
                    /\ typeMatches(req)
                    /\ \/ mediaType = "movie" /\ tmdbID # NULL /\ req.tmdbId = tmdbID
                       \/ /\ mediaType = "series" /\ tvdbID # NULL
                          /\ req.tvdbId # NULL /\ req.tvdbId = tvdbID}
    IN  IF hits = {} THEN NULL ELSE Head(ById(hits)).id

\* Step 4: delete the request, stored on the row or looked up by external id.
DeleteFromOverseerrStep(r, item, o) ==
    LET tmdbID == IF item.tmdb_id # NULL /\ item.tmdb_id > 0 THEN item.tmdb_id ELSE NULL
        tvdbID == IF item.tvdb_id # NULL /\ item.tvdb_id > 0 THEN item.tvdb_id ELSE NULL
        looksUp == item.overseerr_request_id = NULL /\ (tmdbID # NULL \/ tvdbID # NULL)
        found == IF looksUp /\ o.rmFind
                 THEN FindRequestByMediaID(r.w.overseerr, tmdbID, tvdbID, item.type)
                 ELSE NULL
        requestID == IF item.overseerr_request_id # NULL THEN item.overseerr_request_id
                     ELSE IF found # NULL THEN found ELSE 0
        r0 == IF looksUp THEN [r EXCEPT !.steps = Append(@, "FindRequestByMediaID")]
              ELSE r
        r1 == IF looksUp /\ ~o.rmFind
              THEN [r0 EXCEPT !.failed = @ \cup {"request"}, !.request = requestID]
              ELSE [r0 EXCEPT !.request = requestID]
    IN  IF "overseerr" \notin cfg THEN r
        ELSE IF requestID <= 0 THEN r1
        ELSE IF o.rmDelete /\ \E q \in r.w.overseerr : q.id = requestID
        THEN [r1 EXCEPT !.w.overseerr = {q \in @ : q.id # requestID},
                        !.steps = Append(@, "DeleteRequest")]
        ELSE [r1 EXCEPT !.errors = @ \cup {Failure("Overseerr", "")},
                        !.failed = @ \cup {"request"},
                        !.steps = Append(@, "DeleteRequest")]

\* The hashes the SELECT of step 5 returned, in the order of its rows.
RECURSIVE HashList(_)
HashList(S) ==
    IF S = {} THEN << >>
    ELSE LET h == CHOOSE x \in S : TRUE IN <<h>> \o HashList(S \ {h})

\* The calls of DeleteTorrent a loop makes that gives up at the first error.
RECURSIVE UntilFailure(_, _)
UntilFailure(list, fail) ==
    IF list = << >> THEN << >>
    ELSE IF Head(list) \in fail THEN <<Head(list)>>
    ELSE <<Head(list)>> \o UntilFailure(Tail(list), fail)

\* Step 5, second half, leaving the loop at the first torrent whose deletion
\* fails.
DeleteTorrentsStopsAtFailure(r, torrentHashes, o) ==
    LET asked == UntilFailure(HashList(torrentHashes), o.tcFail)
        ok == {asked[i] : i \in DOMAIN asked} \ o.tcFail
        paths == {t.contentPath : t \in {x \in r.w.qbt : x.hash \in ok}}
    IN  [r EXCEPT !.hashes = torrentHashes,
                  !.asked = asked,
                  !.steps = @ \o <<"SELECT hash">>
                              \o (IF torrentHashes = {} THEN << >>
                                  ELSE <<"DeleteTorrent">>),
                  !.w.qbt = {t \in @ : t.hash \notin ok},
                  !.w.disk = {e \in @ : \A cp \in paths :
                                  cp = Empty \/ (e.path # cp /\ ~Below(cp, e))},
                  !.errors = @ \cup {Failure("torrent", h) :
                                        h \in torrentHashes \cap o.tcFail},
                  !.failed = @ \cup (IF torrentHashes \cap o.tcFail = {}
                                     THEN {} ELSE {"torrent"})]

\* Step 5, second half: delete the torrents read from the torrent client,
\* which removes a torrent's files with it; asked has the calls of
\* DeleteTorrent in their order.
DeleteTorrents(r, torrentHashes, o) ==
    LET ok == torrentHashes \ o.tcFail
        paths == {t.contentPath : t \in {x \in r.w.qbt : x.hash \in ok}}
    IN  IF "qbittorrent" \notin cfg
        THEN [r EXCEPT !.hashes = torrentHashes, !.steps = Append(@, "SELECT hash")]
        ELSE [r EXCEPT !.hashes = torrentHashes,
                       !.asked = HashList(torrentHashes),
                       !.steps = @ \o <<"SELECT hash">>
                                   \o (IF torrentHashes = {} THEN << >>
                                       ELSE <<"DeleteTorrent">>),
                       !.w.qbt = {t \in @ : t.hash \notin ok},
                       !.w.disk = {e \in @ : \A cp \in paths :
                                       cp = Empty \/ (e.path # cp /\ ~Below(cp, e))},
                       !.errors = @ \cup {Failure("torrent", h) :
                                             h \in torrentHashes \cap o.tcFail},
                       !.failed = @ \cup (IF torrentHashes \cap o.tcFail = {}
                                          THEN {} ELSE {"torrent"})]

\* Step 5 with the media item's row deleted before the hashes are read.
DeleteTorrentsStepAfterRow(r, mediaID, o) ==
    LET gone == [r EXCEPT !.steps = Append(@, "DELETE media_items"),
                          !.w.items = {m \in @ : m.id # mediaID},
                          !.w.torrents = {t \in @ : t.media_item_id # mediaID}]
    IN  DeleteTorrents(gone,
                       {t.hash : t \in LinkedTorrents(gone.w.torrents, mediaID)}, o)

\* Step 5: read the hashes of the linked torrents rows and delete each of
\* these torrents from the torrent client.
DeleteTorrentsStep(r, mediaID, o) ==
    DeleteTorrents(r, {t.hash : t \in LinkedTorrents(r.w.torrents, mediaID)}, o)

\* The text DeleteMediaItem passes for audit_logs.details: fmt.Sprintf's
\* "Deleted media: %s (type: %s)", and " - Errors: %v" when there are any.
Details(title, mediaType, errors) ==
    [text |-> <<"D", "e", "l", "e", "t", "e", "d", " ", "m", "e", "d", "i", "a", ":", " ">>,
     title |-> title, type |-> mediaType, errors |-> errors]

\* The characters a JSON text can begin with.
JSONStart ==
    {"{", "[", "\"", "-", "0", "1", "2", "3", "4", "5", "6", "7", "8", "9", "t", "f", "n"}

\* Input of column type JSONB: the text has to be a JSON text.
jsonb_in(details) == Head(details.text) \in JSONStart

\* INSERT INTO audit_logs: rejected when user_id or media_item_id names no
\* row, or when details is no input for JSONB.
InsertAuditLog(w, userID, mediaID, title, mediaType, details) ==
    IF /\ userID \in users
       /\ \E m \in w.items : m.id = mediaID
       /\ jsonb_in(details)
    THEN [w |-> [w EXCEPT !.audit = Append(@,
                    [id |-> Len(w.audit) + 1, user_id |-> userID, action |-> "delete",
                     media_item_id |-> mediaID, media_title |-> title,
                     media_type |-> mediaType, details |-> details])],
          err |-> FALSE]
    ELSE [w |-> w, err |-> TRUE]

\* Step 6: the audit row; a failed insert is logged only.
AuditStep(r, item, userID) ==
    LET ins == InsertAuditLog(r.w, userID, item.id, item.title, item.type,
                              Details(item.title, item.type, r.errors))
    IN  IF ins.err
        THEN [r EXCEPT !.failed = @ \cup {"audit"}, !.steps = Append(@, "INSERT audit_logs")]
        ELSE [r EXCEPT !.w = ins.w, !.steps = Append(@, "INSERT audit_logs")]

\* Step 7 run only when no error has been collected.
DeleteFromDatabaseUnlessErrors(r, mediaID) ==
    IF r.errors # {} THEN r
    ELSE [r EXCEPT !.steps = Append(@, "DELETE media_items"),
                   !.w.items = {m \in @ : m.id # mediaID},
                   !.w.torrents = {t \in @ : t.media_item_id # mediaID}]

\* Step 7 on a schema whose torrents rows do not go with their media item.
DeleteFromDatabaseNoCascade(r, mediaID) ==
    [r EXCEPT !.steps = Append(@, "DELETE media_items"),
              !.w.items = {m \in @ : m.id # mediaID}]

\* Step 7: DELETE FROM media_items WHERE id; the torrents rows go with it
\* (ON DELETE CASCADE) and audit rows lose their reference (ON DELETE SET NULL).
DeleteFromDatabase(r, mediaID) ==
    [r EXCEPT !.steps = Append(@, "DELETE media_items"),
              !.w.items = {m \in @ : m.id # mediaID},
              !.w.torrents = {t \in @ : t.media_item_id # mediaID},
              !.w.audit = [i \in DOMAIN @ |->
                              IF @[i].media_item_id = mediaID
                              THEN [@[i] EXCEPT !.media_item_id = NULL] ELSE @[i]]]

\* What one call of DeleteMediaItem is recorded as: its result, the hashes it
\* read in step 5, the statements and external calls it made, in order, and
\* the type and manager ids of the row it read in step 1, and how the
\* external calls answered it, and the request id step 4 worked with (0 for
\* none).
Call(mediaID, found, ret, r, eligible) ==
    [id |-> mediaID, found |-> found, ret |-> ret, errors |-> r.errors,
     failed |-> r.failed, eligible |-> eligible, hashes |-> r.hashes,
     steps |-> r.steps, manager |-> r.manager, excluded |-> r.excluded,
     answers |-> r.answers, request |-> r.request, asked |-> r.asked]

\* The answers of a call of DeleteMediaItem that asked nothing.
NoAnswers ==
    [fs |-> "ok", mmDelete |-> TRUE, mmUnmonitor |-> TRUE, rmFind |-> TRUE,
     rmDelete |-> TRUE, tcFail |-> {}]

\* The running record of a call that has done nothing yet in world w.
Started(w) ==
    [w |-> w, errors |-> {}, failed |-> {}, hashes |-> {}, steps |-> << >>,
     manager |-> <<"", NULL, NULL>>, excluded |-> {}, answers |-> NoAnswers,
     request |-> 0, asked |-> << >>]

\* DeleteMediaItem finding no row, doing nothing and answering nil anyway.
DeleteMediaItemResultNilIfMissing(w, mediaID, userID, o) ==
    [w |-> w, call |-> Call(mediaID, FALSE, "nil", Started(w), FALSE)]

\* DeleteMediaItem(mediaID, userID) in world w, the external calls answering
\* as o says: the world it leaves and the record of the call.  The record has
\* what CheckEligibility answered for the item in w, had it been asked.
DeleteMediaItemResult(w, mediaID, userID, o) ==
    LET rows == {m \in w.items : m.id = mediaID}
        eligible == \E c \in CheckEligibilityResult(w.items, w.torrents, mediaID) :
                        c.eligible
    IN  IF rows = {}
        THEN [w |-> w, call |-> Call(mediaID, FALSE, "err", Started(w), eligible)]
        ELSE LET item == CHOOSE m \in rows : TRUE
                 r1 == [Started(w) EXCEPT
                           !.manager = <<item.type, item.sonarr_id, item.radarr_id>>,
                           !.answers = o]
                 r2 == DeleteFilesStep(r1, item, o)
                 r3 == DeleteFromManagerStep(r2, item, o)
                 r4 == DeleteFromOverseerrStep(r3, item, o)
                 r5 == DeleteTorrentsStep(r4, mediaID, o)
                 r6 == AuditStep(r5, item, userID)
                 r7 == DeleteFromDatabase(r6, mediaID)
             IN  [w |-> r7.w,
                  call |-> Call(mediaID, TRUE,
                                IF r7.errors # {} THEN "err" ELSE "nil",
                                r7, eligible)]

RECURSIVE BulkLoop(_, _, _, _)
\* The loop of handleBulkDeleteMedia over the ids of the request.
BulkLoop(w, ids, userID, o) ==
    IF ids = << >> THEN [w |-> w, calls |-> << >>]
    ELSE LET one == DeleteMediaItemResult(w, Head(ids), userID, o)
             rest == BulkLoop(one.w, Tail(ids), userID, o)
         IN  [w |-> rest.w, calls |-> <<one.call>> \o rest.calls]

\* A handler leaves world w and the record calls of what it called.
Leave(op, w, calls) ==
    /\ media_items' = w.items
    /\ torrents' = w.torrents
    /\ audit_logs' = w.audit
    /\ sonarr' = w.sonarr
    /\ radarr' = w.radarr
    /\ overseerr' = w.overseerr
    /\ qbt' = w.qbt
    /\ disk' = w.disk
    /\ last' = [Blank EXCEPT !.op = op, !.calls = calls]
    /\ UNCHANGED <<cfg, seeding_overrides, passes, session, settings, scheduler, media_seq, prowlarr>>

\* DELETE /api/media/{id}; userID is the user of the request's auth context.
handleDeleteMediaHTMX(id, userID, o) ==
    /\ userID \in users
    /\ LET res == DeleteMediaItemResult(World, id, userID, o)
       IN  Leave("handleDeleteMediaHTMX", res.w, <<res.call>>)

\* POST /media/bulk-delete with the ids of the body; userID is the user of
\* the request's auth context.  An empty list is answered 400.
handleBulkDeleteMedia(ids, userID, o) ==
    /\ userID \in users
    /\ LET res == BulkLoop(World, ids, userID, o)
       IN  Leave("handleBulkDeleteMedia", res.w, res.calls)

(***************************************************************************)
(* The external systems change on their own.                               *)
(***************************************************************************)
AllIntegrations == {"sonarr", "radarr", "overseerr", "qbittorrent", "prowlarr"}

tA == <<"A">>
tB == <<"B">>
pSeries == <<"/", "s">>
pMovie == <<"/", "m">>

Series(id, title, size) ==
    [id |-> id, title |-> title, path |-> pSeries, tvdbId |-> 6 + id, size |-> size]

Movie(id, title, path, size) ==
    [id |-> id, title |-> title, path |-> path, tmdbId |-> 6 + id, size |-> size]

\* The libraries media manager A holds in the runs of SpecSync.
SeriesLibraries ==
    {{}, {Series(1, tA, 0)}, {Series(1, tB, 1), Series(2, tA, 0)},
     {Series(1, tA, 0), Series(2, tB, 0)}, {Series(2, tA, 0)}}

\* The libraries media manager B holds in the runs of SpecSync.  Movie 1 has
\* the external id (7) that series 1 has, in the other catalogue.
MovieLibraries ==
    {{}, {Movie(1, tA, pMovie, 0)}, {Movie(1, tB, pMovie, 1)}}

\* The request lists the request manager holds in the runs of SpecSync:
\* request 1 for the movie, request 2 for series 1 with its type given only
\* on the nested media object, both by a requester that is a row of users.
Request(id, type, nested, tmdb, tvdb, by) ==
    [id |-> id, mediaType |-> type, nestedType |-> nested, tmdbId |-> tmdb,
     tvdbId |-> tvdb, requestedBy |-> by]

RequestLists ==
    {{}, {Request(1, "movie", "movie", 7, NULL, 1)},
     {Request(1, "movie", "movie", 7, NULL, 1), Request(2, "", "tv", 0, 7, 1)}}

Env == [Blank EXCEPT !.op = "env"]

\* Media manager A's library changes (series added, edited, removed).
SonarrSet(lib) ==
    /\ lib # sonarr
    /\ sonarr' = lib
    /\ last' = Env
    /\ UNCHANGED <<cfg, seeding_overrides, passes, session, settings, scheduler, media_items, media_seq, torrents, audit_logs,
                   radarr, overseerr, qbt, prowlarr, disk>>

\* Media manager B's library changes.
RadarrSet(lib) ==
    /\ lib # radarr
    /\ radarr' = lib
    /\ last' = Env
    /\ UNCHANGED <<cfg, seeding_overrides, passes, session, settings, scheduler, media_items, media_seq, torrents, audit_logs,
                   sonarr, overseerr, qbt, prowlarr, disk>>

\* The request manager's requests change.
OverseerrSet(reqs) ==
    /\ reqs # overseerr
    /\ overseerr' = reqs
    /\ last' = Env
    /\ UNCHANGED <<cfg, seeding_overrides, passes, session, settings, scheduler, media_items, media_seq, torrents, audit_logs,
                   sonarr, radarr, qbt, prowlarr, disk>>

(***************************************************************************)
(* SpecSync: the media-manager and request-manager passes.                 *)
(***************************************************************************)
InitEmpty ==
    /\ media_items = {}
    /\ media_seq = 0
    /\ torrents = {}
    /\ audit_logs = << >>
    /\ seeding_overrides = {}
    /\ session = NoSession
    /\ settings = {}
    /\ scheduler = << >>
    /\ passes = << >>
    /\ sonarr = {}
    /\ radarr = {}
    /\ overseerr = {}
    /\ qbt = {}
    /\ prowlarr = {}
    /\ disk = {}
    /\ last = Blank

InitSync ==
    /\ cfg = AllIntegrations
    /\ InitEmpty

NextSync ==
    \/ \E lib \in SeriesLibraries : SonarrSet(lib)
    \/ \E lib \in MovieLibraries : RadarrSet(lib)
    \/ \E reqs \in RequestLists : OverseerrSet(reqs)
    \/ \E ok \in BOOLEAN : SyncFromSonarr(ok)
    \/ \E ok \in BOOLEAN : SyncFromRadarr(ok)
    \/ \E ok \in BOOLEAN : SyncOverseerrRequests(ok)
    \/ \E a, b, c \in BOOLEAN : SyncAll(a, b, c)

SpecSync == InitSync /\ [][NextSync]_vars

(***************************************************************************)
(* Claims about the media-manager passes.                                  *)
(***************************************************************************)
ManagerPasses == {"SyncFromSonarr", "SyncFromRadarr"}

\* At most one media_items row per media-manager id.
OneRowPerManagerID ==
    \A m, n \in media_items :
        \/ m = n
        \/ /\ (m.sonarr_id = NULL \/ m.sonarr_id # n.sonarr_id)
           /\ (m.radarr_id = NULL \/ m.radarr_id # n.radarr_id)

\* This step is the second of two successful passes of one media manager in
\* a row (nothing else, and no change of the remote library, in between).
SecondPassInARow ==
    /\ last.op \in ManagerPasses
    /\ last.ret = "nil"
    /\ last'.op = last.op
    /\ last'.ret = "nil"

\* C8: a second SyncFromSonarr / SyncFromRadarr pass in a row against the
\* unchanged remote list leaves the rows of media_items (their number and all
\* modelled fields) exactly as the first pass left them, and in every state
\* there is at most one media_items row per manager id.
C8_IdempotentSync ==
    /\ []OneRowPerManagerID
    /\ [][SecondPassInARow => media_items' = media_items]_vars

\* A second SyncFromSonarr pass in a row has run over two series rows.
C8_Witness ==
    /\ last.op = "SyncFromSonarr"
    /\ last.nth = 2
    /\ Cardinality({m \in media_items : m.sonarr_id # NULL}) = 2

\* Row n is row m with at most title, file_path and file_size changed.
SameButTitlePathSize(m, n) ==
    n = [m EXCEPT !.title = n.title, !.file_path = n.file_path,
                  !.file_size = n.file_size]

\* C9: a SyncFromSonarr / SyncFromRadarr pass leaves every existing row's
\* overseerr_request_id and requested_by_user_id as they were; of an existing
\* row only title, file_path and file_size may change.
C9_SyncPreservesLinkage ==
    [][last'.op \in ManagerPasses =>
          \A m \in media_items : \E n \in media_items' :
              /\ n.id = m.id
              /\ n.overseerr_request_id = m.overseerr_request_id
              /\ n.requested_by_user_id = m.requested_by_user_id
              /\ SameButTitlePathSize(m, n)]_vars

\* A media-manager pass has changed a row that carries a request link.
C9_Witness ==
    /\ last.op \in ManagerPasses
    /\ \E m \in media_items :
          /\ m.overseerr_request_id # NULL
          /\ m.requested_by_user_id # NULL
          /\ m.id \in last.changed

(***************************************************************************)
(* SpecTorrent: the torrent pass over a library of movies.                 *)
(***************************************************************************)
pX == <<"/", "m", "/", "X">>
pXf == <<"/", "m", "/", "X", "/", "f">>
pM == <<"/", "m">>
pW == <<"/", "m", "/", "_">>
cSub == <<"m", "/", "X">>
nA == <<"A", " ", "k">>
nB == <<"x", "B", "x">>

\* The libraries media manager B holds in the runs of SpecTorrent.
TorrentMovieLibraries ==
    {{Movie(1, tA, pXf, 1)},
     {Movie(1, tA, pXf, 1), Movie(2, tB, pM, 1)},
     {Movie(1, tA, pX, 1), Movie(2, tB, pXf, 1)},
     {Movie(1, tA, Empty, 0), Movie(2, tB, pW, 1)}}

Torrent(hash, name, cp, tracker, state, time, ratio) ==
    [hash |-> hash, name |-> name, contentPath |-> cp, tracker |-> tracker,
     state |-> state, seedingTime |-> time, ratio |-> ratio]

\* What the torrent client holds in the runs of SpecTorrent.
TorrentClientLists ==
    {{Torrent("h1", Empty, cp, Empty, "uploading", 0, 0)} : cp \in {pX, pXf, cSub}}
    \cup {{Torrent("h1", name, Empty, Empty, "pausedUP", 0, 0)} : name \in {nA, nB}}
    \cup {{Torrent("h1", nB, pX, Empty, "uploading", 0, 0),
           Torrent("h2", nA, Empty, Empty, "stalledUP", 0, 0)}}

\* The torrent client's torrents change.
QbtSet(list) ==
    /\ list # qbt
    /\ qbt' = list
    /\ last' = Env
    /\ UNCHANGED <<cfg, seeding_overrides, passes, session, settings, scheduler, media_items, media_seq, torrents, audit_logs,
                   sonarr, radarr, overseerr, prowlarr, disk>>

InitTorrent ==
    /\ cfg = AllIntegrations
    /\ InitEmpty

NextTorrent ==
    \/ \E lib \in TorrentMovieLibraries : RadarrSet(lib)
    \/ \E list \in TorrentClientLists : QbtSet(list)
    \/ \E ok \in BOOLEAN : SyncFromRadarr(ok)
    \/ \E ok, ixOk \in BOOLEAN : SyncFromQBittorrent(ok, ixOk)

SpecTorrent == InitTorrent /\ [][NextTorrent]_vars

(***************************************************************************)
(* Claims about the torrent pass.                                          *)
(***************************************************************************)
RECURSIVE FirstHit(_)
\* The first non-empty set of a sequence of sets, {} if there is none.
FirstHit(hits) ==
    IF hits = << >> THEN {}
    ELSE IF Head(hits) # {} THEN Head(hits)
    ELSE FirstHit(Tail(hits))

\* After a pass, torrent t's row is linked to one of candidates if there is a
\* candidate, and has kept the link it had (none, for a new row) otherwise.
LinkedTo(t, candidates) ==
    \E r \in torrents' :
        /\ r.hash = t.hash
        /\ IF candidates # {} THEN r.media_item_id \in candidates
           ELSE \/ \E o \in torrents : o.hash = t.hash /\ o.media_item_id = r.media_item_id
                \/ r.media_item_id = NULL /\ \A o \in torrents : o.hash # t.hash

\* The strategies in the order the claim gives them.
ClaimedOrder(t) ==
    <<IF t.contentPath = Empty THEN {} ELSE MatchExact(media_items, t.contentPath),
      IF t.contentPath = Empty THEN {} ELSE MatchLocalIsPrefix(media_items, t.contentPath),
      IF t.contentPath = Empty THEN {} ELSE MatchContentIsPrefix(media_items, t.contentPath),
      IF t.contentPath = Empty THEN {} ELSE MatchContains(media_items, t.contentPath),
      IF t.name = Empty THEN {} ELSE MatchByName(media_items, t.name)>>

\* The strategies in the order of the code: the torrent's content path as a
\* prefix of the local path before the local path as a prefix of the content
\* path.
CodeOrder(t) ==
    <<IF t.contentPath = Empty THEN {} ELSE MatchExact(media_items, t.contentPath),
      IF t.contentPath = Empty THEN {} ELSE MatchContentIsPrefix(media_items, t.contentPath),
      IF t.contentPath = Empty THEN {} ELSE MatchLocalIsPrefix(media_items, t.contentPath),
      IF t.contentPath = Empty THEN {} ELSE MatchContains(media_items, t.contentPath),
      IF t.name = Empty THEN {} ELSE MatchByName(media_items, t.name)>>

TorrentPassDone ==
    last'.op = "SyncFromQBittorrent" /\ last'.ret = "nil"

TrackerFields ==
    {f \in [tracker_type : {"public", "private", "semiPrivate", NullStr},
            seeding_required_seconds : {NULL} \cup 0..MaxStat,
            seeding_required_ratio : {NULL} \cup 0..MaxStat] :
        f.tracker_type = NullStr =>
            f.seeding_required_seconds = NULL /\ f.seeding_required_ratio = NULL}

TorrentRowOf(hash, link, f, time, ratio, seeding) ==
    [hash |-> hash, media_item_id |-> link,
     tracker_id |-> NULL, tracker_name |-> NullText,
     tracker_type |-> f.tracker_type,
     seeding_time_seconds |-> time, ratio |-> ratio,
     seeding_required_seconds |-> f.seeding_required_seconds,
     seeding_required_ratio |-> f.seeding_required_ratio,
     is_seeding |-> seeding]

Fields(type, time, ratio) ==
    [tracker_type |-> type, seeding_required_seconds |-> time,
     seeding_required_ratio |-> ratio]

\* Any row for torrent h1, linked to media item 1.
FirstRows ==
    {TorrentRowOf("h1", 1, f, time, ratio, seeding) :
        f \in TrackerFields, time \in 0..MaxStat, ratio \in 0..MaxStat,
        seeding \in BOOLEAN}

\* Rows for a second torrent of media item 1: one that passes on a public
\* tracker, one that fails and one that passes on a private tracker.
SecondRows ==
    {TorrentRowOf("h2", 1, Fields("public", NULL, NULL), 0, 0, FALSE),
     TorrentRowOf("h2", 1, Fields("private", NULL, NULL), 0, 0, TRUE),
     TorrentRowOf("h2", 1, Fields("private", 0, 0), 0, 0, TRUE)}

\* Rows for a torrent that is not media item 1's: linked to item 2, or to none.
OtherRows ==
    {TorrentRowOf("h3", 2, Fields("private", NULL, NULL), 0, 0, TRUE),
     TorrentRowOf("h3", NULL, Fields("private", NULL, NULL), 0, 0, TRUE)}

AtMostOne(S) == {{}} \cup {{x} : x \in S}

InitElig ==
    /\ cfg = AllIntegrations
    /\ media_items = {MediaRow(1, tA, "movie", 7, NULL, NULL, 1, pMovie, 1),
                      MediaRow(2, tB, "movie", 8, NULL, NULL, 2, pMovie, 1)}
    /\ media_seq = 2
    /\ \E a \in AtMostOne(FirstRows), b \in AtMostOne(SecondRows),
          c \in AtMostOne(OtherRows) : torrents = a \cup b \cup c
    /\ audit_logs = << >>
    /\ seeding_overrides = {}
    /\ session = NoSession
    /\ settings = {}
    /\ scheduler = << >>
    /\ passes = << >>
    /\ sonarr = {}
    /\ radarr = {}
    /\ overseerr = {}
    /\ qbt = {}
    /\ prowlarr = {}
    /\ disk = {}
    /\ last = Blank

NextElig == \E id \in 1..MaxMediaID : CheckEligibility(id)

SpecElig == InitElig /\ [][NextElig]_vars

(***************************************************************************)
(* Claims about eligibility.                                               *)
(***************************************************************************)
Checked == last.op = "CheckEligibility" /\ last.found

\* C5: for an existing media item CheckEligibility returns isEligible = true
\* exactly when the item has a linked torrent row and every linked row passes
\* the per-torrent check; with no linked row it returns isEligible = false,
\* the "no torrents" reason and a nil error.
C5_EligibleIffAllLinkedPass ==
    Checked =>
        LET linked == {r \in torrents : r.media_item_id = last.id}
        IN  /\ last.ret = "nil"
            /\ last.eligible <=>
                  (linked # {} /\ \A r \in linked : checkTorrentEligibility(r).ok)
            /\ linked = {} =>
                  /\ ~last.eligible
                  /\ last.reason = "No torrents found for this media item"

\* CheckEligibility has answered for an item with two linked rows of which
\* one passes and one fails, and for an item with a row linked to another.
C5_Witness ==
    /\ Checked
    /\ ~last.eligible
    /\ \E r, q \in torrents :
          /\ r.media_item_id = last.id
          /\ q.media_item_id = last.id
          /\ checkTorrentEligibility(r).ok
          /\ ~checkTorrentEligibility(q).ok

Met(have, required) == required = NULL \/ have >= required

\* The media item checked has exactly the one linked row r.
OnlyRow(r) ==
    /\ Checked
    /\ r.media_item_id = last.id
    /\ \A q \in torrents : q.media_item_id = last.id => q = r

\* C6: a row whose tracker type is not public (private, another value, or
\* none) passes exactly when its required time is present and reached, its
\* required ratio is absent or reached, and it is seeding; without a required
\* time it fails with the "infinite" reason, and with the thresholds met but
\* not seeding it fails with the "not currently seeding" reason.  The item
\* whose only row it is gets that verdict, and that reason when it fails.
C6_PrivateTorrentCheck ==
    \A r \in torrents :
        r.tracker_type # "public" =>
            LET c == checkTorrentEligibility(r)
                timeMet == /\ r.seeding_required_seconds # NULL
                           /\ r.seeding_time_seconds >= r.seeding_required_seconds
                ratioMet == Met(r.ratio, r.seeding_required_ratio)
            IN  /\ c.ok <=> (timeMet /\ ratioMet /\ r.is_seeding)
                /\ r.seeding_required_seconds = NULL =>
                      ~c.ok /\ c.reason = "Infinite seeding time required"
                /\ (timeMet /\ ratioMet /\ ~r.is_seeding) =>
                      ~c.ok /\ c.reason = "Torrent is not currently seeding"
                /\ OnlyRow(r) =>
                      /\ last.eligible = c.ok
                      /\ ~c.ok => last.reason = c.reason

\* CheckEligibility has refused an item whose only row is on a private
\* tracker with its thresholds met, because the torrent is not seeding.
C6_Witness ==
    \E r \in torrents :
        /\ OnlyRow(r)
        /\ r.tracker_type = "private"
        /\ r.seeding_required_seconds # NULL
        /\ r.seeding_time_seconds >= r.seeding_required_seconds
        /\ r.seeding_required_ratio # NULL
        /\ r.ratio >= r.seeding_required_ratio
        /\ ~r.is_seeding
        /\ ~last.eligible
        /\ last.reason = "Torrent is not currently seeding"

\* C7: a row whose tracker type is public passes, whatever its seeding time,
\* ratio and is_seeding, when it has neither a required time nor a required
\* ratio; when it has one or both it passes exactly when each one it has is
\* reached, and fails with the reason naming the shortfall otherwise.  The
\* item whose only row it is gets that verdict, and that reason when it fails.
C7_PublicTorrentCheck ==
    \A r \in torrents :
        r.tracker_type = "public" =>
            LET c == checkTorrentEligibility(r)
                timeMet == Met(r.seeding_time_seconds, r.seeding_required_seconds)
                ratioMet == Met(r.ratio, r.seeding_required_ratio)
            IN  /\ (r.seeding_required_seconds = NULL /\ r.seeding_required_ratio = NULL)
                      => c.ok
                /\ c.ok <=> (timeMet /\ ratioMet)
                /\ ~timeMet => c.reason = "Seeding time < required"
                /\ (timeMet /\ ~ratioMet) => c.reason = "Ratio < required"
                /\ OnlyRow(r) =>
                      /\ last.eligible = c.ok
                      /\ ~c.ok => last.reason = c.reason

\* CheckEligibility has refused an item whose only row is on a public tracker
\* and short of its required ratio, though it is seeding.
C7_Witness ==
    \E r \in torrents :
        /\ OnlyRow(r)
        /\ r.tracker_type = "public"
        /\ r.seeding_required_ratio # NULL
        /\ r.ratio < r.seeding_required_ratio
        /\ r.is_seeding
        /\ ~last.eligible
        /\ last.reason = "Ratio < required"

(***************************************************************************)
(* Spec: deletion, over one library that the passes bring into the store.  *)
(***************************************************************************)
trk == <<"t", "r", "k">>
pS == <<"/", "s">>

Indexer(id, name, privacy, minSeedTime, minRatio) ==
    [id |-> id, name |-> name, privacy |-> privacy, minSeedTime |-> minSeedTime,
     minRatio |-> minRatio]

Entry(path, dir) == [path |-> path, dir |-> dir]

\* Series 1 lies in directory /s, movie 1 is the file /m/X/f; the movie has a
\* request; torrents h1 (folder /m/X) and h3 (file /m/X/f) are on a private
\* indexer whose seeding time they have reached, torrent h2 (folder /s) has
\* no tracker.  The store is
\* as the first SyncFromSonarr, SyncFromRadarr and SyncFromQBittorrent leave it.
InitDelete ==
    /\ cfg = AllIntegrations
    /\ sonarr = {Series(1, tA, 1)}
    /\ radarr = {Movie(1, tB, pXf, 1)}
    /\ overseerr = {Request(1, "movie", "movie", 7, NULL, 1)}
    /\ qbt = {Torrent("h1", Empty, pX, trk, "uploading", 1, 1),
              Torrent("h2", Empty, pS, Empty, "pausedUP", 0, 0),
              Torrent("h3", Empty, pXf, trk, "stalledUP", 1, 0)}
    /\ prowlarr = {Indexer(1, trk, "private", 1, NULL)}
    /\ disk = {Entry(pX, TRUE), Entry(pXf, FALSE), Entry(pS, TRUE)}
    /\ LET a == SyncFromSonarrResult([items |-> {}, seq |-> 0], TRUE).st
           b == SyncFromRadarrResult(a, TRUE).st
       IN  /\ media_items = b.items
           /\ media_seq = b.seq
           /\ torrents \in TorrentLoop({}, b.items, qbt, prowlarr)
    /\ audit_logs = << >>
    /\ seeding_overrides = {}
    /\ session = NoSession
    /\ settings = {}
    /\ scheduler = << >>
    /\ passes = << >>
    /\ last = Blank

\* How the external calls of one deletion may answer.  The unmonitor call is
\* made only after a failed delete, and a request is deleted after a failed
\* lookup only when its id is stored: the answers that cannot be told apart
\* are given once.
DeleteOutcomes ==
    {o \in [fs : {"ok", "fail"}, mmDelete : BOOLEAN, mmUnmonitor : BOOLEAN,
            rmFind : BOOLEAN, rmDelete : BOOLEAN, tcFail : {{}, {"h1", "h2"}}] :
        /\ o.mmDelete => o.mmUnmonitor
        /\ ~o.rmFind => ~o.rmDelete}

\* How the external calls answer during a bulk request: all of them, none of
\* them, or all but the torrent client's.
BulkOutcomes ==
    {o \in DeleteOutcomes :
        \/ o.fs = "ok" /\ o.mmDelete /\ o.mmUnmonitor /\ o.rmFind /\ o.rmDelete
        \/ /\ o.fs = "fail" /\ ~o.mmDelete /\ ~o.mmUnmonitor /\ ~o.rmFind /\ ~o.rmDelete
           /\ o.tcFail # {}}

\* The id lists of the bulk requests made.
BulkRequests == {<< >>, <<1, 2>>, <<2, 2>>}

Next ==
    \/ \E ok \in BOOLEAN : SyncOverseerrRequests(ok)
    \/ \E ok, ixOk \in BOOLEAN : SyncFromQBittorrent(ok, ixOk)
    \/ \E id \in 1..MaxMediaID : CheckEligibility(id)
    \/ \E id \in 1..MaxMediaID, u \in users, o \in DeleteOutcomes :
          handleDeleteMediaHTMX(id, u, o)
    \/ \E ids \in BulkRequests, u \in users, o \in BulkOutcomes :
          handleBulkDeleteMedia(ids, u, o)

Spec == InitDelete /\ [][Next]_vars

(***************************************************************************)
(* Claims about deletion.                                                  *)
(***************************************************************************)
DeleteHandlers == {"handleDeleteMediaHTMX", "handleBulkDeleteMedia"}

\* The calls of DeleteMediaItem the last handler made that found their row.
FoundCalls(l) ==
    IF l.op \in DeleteHandlers
    THEN {l.calls[i] : i \in {j \in DOMAIN l.calls : l.calls[j].found}}
    ELSE {}

Names(c, steps) == \E e \in c.errors : e.step \in steps

\* C1: a call of DeleteMediaItem that found its row leaves the row absent
\* from the store, whatever failed in the filesystem, media-manager,
\* request-manager and torrent-client steps; and when both the media-manager
\* step (delete and unmonitor) and a torrent-client delete failed, it returns
\* a non-nil error that lists both failures.
C1_BestEffortDeletion ==
    \A c \in FoundCalls(last) :
        /\ \A m \in media_items : m.id # c.id
        /\ ("manager" \in c.failed /\ "torrent" \in c.failed) =>
              /\ c.ret = "err"
              /\ Names(c, {"Sonarr", "Radarr"})
              /\ Names(c, {"torrent"})

\* A deletion has run in which the filesystem, the media manager (delete and
\* unmonitor), the request manager and the torrent client all failed.
C1_Witness ==
    \E c \in FoundCalls(last) :
        /\ {"files", "manager", "request", "torrent"} \subseteq c.failed
        /\ c.ret = "err"
        /\ \A m \in media_items : m.id # c.id

\* C2: every call of DeleteMediaItem that finds its row adds exactly one row
\* to audit_logs.
C2_OneAuditRowPerDeletion ==
    [][last'.op \in DeleteHandlers =>
          Len(audit_logs') = Len(audit_logs) + Cardinality(FoundCalls(last'))]_vars

\* C3: DeleteMediaItem returns nil only if every step succeeded, the audit
\* write included, and its error names each step that failed.
C3_NilOnlyIfEveryStepSucceeded ==
    \A c \in FoundCalls(last) :
        /\ c.ret = "nil" => c.failed = {}
        /\ "files" \in c.failed => Names(c, {"files"})
        /\ "manager" \in c.failed => Names(c, {"Sonarr", "Radarr"})
        /\ "request" \in c.failed => Names(c, {"Overseerr"})
        /\ "torrent" \in c.failed => Names(c, {"torrent"})
        /\ "audit" \in c.failed => Names(c, {"audit"})

\* C4: through the delete entry points an item is torn down only if
\* CheckEligibility reports it eligible at that moment.
C4_OnlyEligibleDeleted ==
    \A c \in FoundCalls(last) : c.eligible

(***************************************************************************)
(* More claims about the torrent pass.                                     *)
(***************************************************************************)
\* C11: a torrent pass never takes an existing row's media-item link from a
\* value to NULL; the link of an existing row changes only to a link resolved
\* in this pass that is not NULL and differs from the stored one, and the
\* rows of torrents the client did not list stay as they were.
C11_SyncNeverUnlinks ==
    [][TorrentPassDone =>
          \A o \in torrents :
              \E r \in torrents' :
                  /\ r.hash = o.hash
                  /\ o.media_item_id # NULL => r.media_item_id # NULL
                  /\ r.media_item_id # o.media_item_id =>
                        /\ r.media_item_id # NULL
                        /\ \E t \in qbt :
                              /\ t.hash = o.hash
                              /\ r.media_item_id \in ResolveMedia(media_items, t)
                  /\ (\A t \in qbt : t.hash # o.hash) => r = o]_vars

\* A pass has run over a torrent that resolves to no media item now and whose
\* row has a link, from an earlier pass.
C11_Witness ==
    /\ last.op = "SyncFromQBittorrent"
    /\ last.ret = "nil"
    /\ \E t \in qbt, r \in torrents :
          /\ r.hash = t.hash
          /\ r.media_item_id # NULL
          /\ ResolveMedia(media_items, t) = {NULL}

(***************************************************************************)
(* More claims about the media-manager and request-manager passes.         *)
(***************************************************************************)
\* C12: SyncAll calls SyncFromSonarr, then SyncFromRadarr, then
\* SyncOverseerrRequests, each working on the store the one before left; a
\* stage that fails does not keep the later ones from running, and SyncAll
\* returns nil.
C12_SyncAllOrder ==
    [][last'.op = "SyncAll" =>
          /\ last'.ret = "nil"
          /\ Len(last'.calls) = 3
          /\ last'.calls[1].op = "SyncFromSonarr"
          /\ last'.calls[2].op = "SyncFromRadarr"
          /\ last'.calls[3].op = "SyncOverseerrRequests"
          /\ LET a == SyncFromSonarrResult(Store, last'.calls[1].ret = "nil").st
                 b == SyncFromRadarrResult(a, last'.calls[2].ret = "nil").st
                 cs == SyncOverseerrRequestsResult(b.items, last'.calls[3].ret = "nil")
             IN  /\ media_seq' = b.seq
                 /\ \E c \in cs : media_items' = c.items]_vars

\* SyncAll has run with both media-manager stages failing, and its third
\* stage has linked a request to a row.
C12_Witness ==
    /\ last.op = "SyncAll"
    /\ last.ret = "nil"
    /\ Len(last.calls) = 3
    /\ last.calls[1].ret = "err"
    /\ last.calls[2].ret = "err"
    /\ last.calls[3].ret = "nil"
    /\ \E m \in media_items : m.id \in last.changed /\ m.overseerr_request_id # NULL

(***************************************************************************)
(* More claims about deletion.                                             *)
(***************************************************************************)
\* C13: when DeleteMediaItem has deleted a media item's row no torrents row
\* is linked to the item any more (none of the rows whose hashes the call
\* read is left), and in every state each torrents row's media_item_id is
\* NULL or the id of a media_items row.
C13_CascadeAndIntegrity ==
    /\ \A t \in torrents :
          t.media_item_id = NULL \/ \E m \in media_items : m.id = t.media_item_id
    /\ last.op \in DeleteHandlers =>
          \A c \in FoundCalls(last) :
              \A t \in torrents : t.media_item_id # c.id /\ t.hash \notin c.hashes

\* A media item with two linked torrents rows has been deleted.
C13_Witness ==
    \E c \in FoundCalls(last) :
        /\ Cardinality(c.hashes) = 2
        /\ \A t \in torrents : t.media_item_id # c.id

\* The place of a statement or external call in the order of DeleteMediaItem.
Rank(step) ==
    CASE step = "deleteFiles" -> 1
      [] step \in {"DeleteSeries", "DeleteMovie"} -> 2
      [] step \in {"UnmonitorSeries", "UnmonitorMovie"} -> 3
      [] step = "FindRequestByMediaID" -> 4
      [] step = "DeleteRequest" -> 5
      [] step = "SELECT hash" -> 6
      [] step = "DeleteTorrent" -> 7
      [] step = "INSERT audit_logs" -> 8
      [] step = "DELETE media_items" -> 9

\* C14: a call of DeleteMediaItem that found its row makes its statements and
\* external calls one after the other in the order filesystem, media manager
\* (delete, then unmonitor), request manager (lookup, then delete), torrent
\* client, audit write, row deletion; the row deletion comes last, after the
\* hashes of the rows linked when the call began were read and after the
\* audit write was attempted.
C14_StepsInOrder ==
    [][last'.op \in DeleteHandlers =>
          \A c \in FoundCalls(last') :
              /\ \A i, j \in DOMAIN c.steps : i < j => Rank(c.steps[i]) < Rank(c.steps[j])
              /\ c.steps[Len(c.steps)] = "DELETE media_items"
              /\ \E i \in DOMAIN c.steps : c.steps[i] = "SELECT hash"
              /\ \E i \in DOMAIN c.steps : c.steps[i] = "INSERT audit_logs"
              /\ c.hashes = {t.hash : t \in {x \in torrents : x.media_item_id = c.id}}]_vars

\* A call has made every kind of statement and external call: files, delete
\* and unmonitor, request lookup and delete, hashes and torrent delete, audit
\* write and row deletion.
C14_Witness ==
    \E c \in FoundCalls(last) :
        /\ Len(c.steps) = 9
        /\ c.hashes # {}

\* C15: a call of DeleteMediaItem for an id that has no media_items row
\* returns an error and makes no statement and no external call; a handler
\* none of whose calls found a row leaves the tables, the external systems
\* and the filesystem as they were.
C15_MissingRowChangesNothing ==
    [][last'.op \in DeleteHandlers =>
          /\ \A i \in DOMAIN last'.calls :
                ~last'.calls[i].found =>
                    /\ last'.calls[i].ret = "err"
                    /\ last'.calls[i].steps = << >>
                    /\ last'.calls[i].errors = {}
          /\ FoundCalls(last') = {} =>
                UNCHANGED <<media_items, media_seq, torrents, audit_logs,
                            seeding_overrides, passes, session, settings,
                            scheduler, external>>]_vars

\* DeleteMediaItem has been called for an item that was deleted before.
C15_Witness ==
    /\ last.op \in DeleteHandlers
    /\ \E i \in DOMAIN last.calls :
          /\ ~last.calls[i].found
          /\ last.calls[i].id <= media_seq
          /\ last.calls[i].ret = "err"

(***************************************************************************)
(* SpecTracker: the torrent pass over torrents that name a tracker, with   *)
(* the indexer manager switched on or off, its indexer list changing and   *)
(* the operator's rows in seeding_overrides changing.                      *)
(***************************************************************************)
tYts == <<"y", "t", "s">>
tYtsMx == <<"y", "t", "s", ".", "m", "x">>
tOther == <<"a", "b">>

\* The tracker strings the torrent client reports in these runs.
TrackerNames == {Empty, trk, tYts, tYtsMx, tOther}

\* What the torrent client holds in the runs of SpecTracker.
TrackerClientLists ==
    {{Torrent("h1", Empty, Empty, tr, "uploading", MaxStat, 1)} : tr \in TrackerNames}
    \cup {{Torrent("h1", Empty, Empty, trk, "stalledUP", 0, 0),
           Torrent("h2", Empty, Empty, tYts, "pausedUP", 0, 0)}}

\* What the indexer manager lists in these runs.
IndexerLists ==
    {{}, {Indexer(1, trk, "private", 1, NULL)}, {Indexer(1, trk, "public", NULL, NULL)},
     {Indexer(1, tOther, "semiPrivate", NULL, 1), Indexer(2, trk, "private", 1, 1)}}

\* A row of seeding_overrides.
SeedingOverride(tracker_id, tracker_name, time, ratio) ==
    [tracker_id |-> tracker_id, tracker_name |-> tracker_name,
     min_seeding_time_seconds |-> time, min_seeding_ratio |-> ratio]

\* The rows the operator keeps in seeding_overrides in these runs.
OverrideTables ==
    {{}, {SeedingOverride(1, trk, 0, 0)}, {SeedingOverride(NULL, tYts, 1, 1)}}

\* The indexer manager's indexers change.
ProwlarrSet(list) ==
    /\ list # prowlarr
    /\ prowlarr' = list
    /\ last' = Env
    /\ UNCHANGED <<cfg, seeding_overrides, passes, session, settings, scheduler, media_items, media_seq, torrents, audit_logs,
                   sonarr, radarr, overseerr, qbt, disk>>

\* The operator rewrites seeding_overrides; no code of the program writes it.
SeedingOverridesSet(rows) ==
    /\ rows # seeding_overrides
    /\ seeding_overrides' = rows
    /\ last' = Env
    /\ UNCHANGED <<cfg, passes, session, settings, scheduler, media_items, media_seq, torrents,
                   audit_logs, external>>

InitTracker ==
    /\ cfg \in {AllIntegrations, AllIntegrations \ {"prowlarr"}}
    /\ InitEmpty

NextTracker ==
    \/ \E list \in TrackerClientLists : QbtSet(list)
    \/ \E list \in IndexerLists : ProwlarrSet(list)
    \/ \E rows \in OverrideTables : SeedingOverridesSet(rows)
    \/ \E ok, ixOk \in BOOLEAN : SyncFromQBittorrent(ok, ixOk)

SpecTracker == InitTracker /\ [][NextTracker]_vars

(***************************************************************************)
(* Claims about tracker resolution.                                        *)
(***************************************************************************)
\* The rows of seeding_overrides that are about the tracker of row r.
OverridesOf(r) ==
    {ov \in seeding_overrides :
        \/ r.tracker_id # NULL /\ ov.tracker_id = r.tracker_id
        \/ r.tracker_name # NullText /\ ov.tracker_name = r.tracker_name}

\* C16: after a torrent pass, a torrent whose tracker has a row in
\* seeding_overrides carries that row's seeding time and ratio as its required
\* values, whatever the indexer manager supplied.
C16_OverrideTakesPrecedence ==
    (last.op = "SyncFromQBittorrent" /\ last.ret = "nil") =>
        \A t \in qbt, r \in torrents :
            r.hash = t.hash =>
                \A ov \in OverridesOf(r) :
                    /\ r.seeding_required_seconds = ov.min_seeding_time_seconds
                    /\ r.seeding_required_ratio = ov.min_seeding_ratio

\* The tracker string starts with (or is) one of the known-public names.
StartsWithPublic(tracker) == \E public \in publicTrackers : IsPrefix(public, tracker)

\* C17: a torrent pass leaves every listed torrent that names a tracker with a
\* tracker type: the privacy of the fetched indexer of that name together with
\* that indexer's minimum seed time and ratio, and with no such indexer
\* (none listed, or the list not available) 'public' when the tracker string
\* starts with or equals a known-public name and 'private' otherwise.
C17_TrackerTypeNeverNull ==
    [][\A ixOk \in BOOLEAN :
          SyncFromQBittorrent(TRUE, ixOk) /\ TorrentPassDone =>
              \A t \in qbt :
                  t.tracker # Empty =>
                      \E r \in torrents' :
                          /\ r.hash = t.hash
                          /\ r.tracker_type # NullStr
                          /\ LET fetched == IF "prowlarr" \in cfg /\ ixOk
                                            THEN prowlarr ELSE {}
                                 hit == {i \in fetched : i.name = t.tracker}
                             IN  IF hit # {}
                                 THEN \E i \in hit :
                                         /\ r.tracker_type = i.privacy
                                         /\ r.seeding_required_seconds = i.minSeedTime
                                         /\ r.seeding_required_ratio = i.minRatio
                                 ELSE r.tracker_type =
                                         IF StartsWithPublic(t.tracker)
                                         THEN "public" ELSE "private"]_vars

\* With the indexer manager switched on, a torrent whose tracker string is not
\* itself a known-public name gets the fetched indexer's privacy and minimums,
\* or 'public' or 'private' by the known-public names when no indexer matches.
TrackerTypeWhenNotAPublicName ==
    [][\A ixOk \in BOOLEAN :
          SyncFromQBittorrent(TRUE, ixOk) /\ TorrentPassDone /\ "prowlarr" \in cfg =>
              \A t \in qbt :
                  t.tracker # Empty /\ t.tracker \notin publicTrackers =>
                      \E r \in torrents' :
                          /\ r.hash = t.hash
                          /\ LET fetched == IF ixOk THEN prowlarr ELSE {}
                                 hit == {i \in fetched : i.name = t.tracker}
                             IN  IF hit # {}
                                 THEN \E i \in hit :
                                         /\ r.tracker_type = i.privacy
                                         /\ r.seeding_required_seconds = i.minSeedTime
                                         /\ r.seeding_required_ratio = i.minRatio
                                 ELSE r.tracker_type =
                                         IF StartsWithPublic(t.tracker)
                                         THEN "public" ELSE "private"]_vars

(***************************************************************************)
(* SpecRequest: the request-manager pass with the integration switched on  *)
(* or off, over requests whose requester is or is not a row of users.      *)
(***************************************************************************)
\* The request lists the request manager holds in the runs of SpecRequest:
\* requester 1 is a row of users, requester 2 is a user of the request
\* manager only; request 3 is for a film that no media manager holds.
RequesterLists ==
    {{}, {Request(1, "movie", "movie", 7, NULL, 1)},
     {Request(1, "movie", "movie", 7, NULL, 2)},
     {Request(2, "", "tv", 0, 7, 1), Request(3, "movie", "", 9, NULL, 1)},
     {Request(3, "movie", "", 9, NULL, 2)}}

InitRequest ==
    /\ cfg \in {AllIntegrations, AllIntegrations \ {"overseerr"}}
    /\ InitEmpty

NextRequest ==
    \/ \E lib \in {{}, {Series(1, tA, 0)}} : SonarrSet(lib)
    \/ \E lib \in {{}, {Movie(1, tB, pMovie, 1)}} : RadarrSet(lib)
    \/ \E reqs \in RequesterLists : OverseerrSet(reqs)
    \/ \E ok \in BOOLEAN : SyncFromSonarr(ok)
    \/ \E ok \in BOOLEAN : SyncFromRadarr(ok)
    \/ \E ok \in BOOLEAN : SyncOverseerrRequests(ok)

SpecRequest == InitRequest /\ [][NextRequest]_vars

(***************************************************************************)
(* Claims about request linking.                                           *)
(***************************************************************************)
\* The request is for media item m: same type, same external id.
RequestFor(req, m) ==
    /\ m.type = EffectiveType(req)
    /\ \/ m.type = "movie" /\ req.tmdbId > 0 /\ m.tmdb_id = req.tmdbId
       \/ m.type = "series" /\ req.tvdbId # NULL /\ req.tvdbId > 0
                            /\ m.tvdb_id = req.tvdbId

\* C18: after the request-manager pass has fetched the requests, every media
\* item some request is for carries that request's id and its requester as
\* owning user, and no other row has changed; with the integration switched
\* off the pass returns nil and changes nothing.
C18_RequestLinksItem ==
    last.op = "SyncOverseerrRequests" =>
        /\ "overseerr" \notin cfg => last.ret = "nil" /\ last.changed = {}
        /\ "overseerr" \in cfg /\ last.ret = "nil" =>
              /\ \A req \in overseerr, m \in media_items :
                    RequestFor(req, m) =>
                        /\ m.overseerr_request_id = req.id
                        /\ m.requested_by_user_id = req.requestedBy
              /\ \A m \in media_items :
                    m.id \in last.changed => \E req \in overseerr : RequestFor(req, m)

\* The same with the first part only for requesters that are rows of users.
RequestLinksItemOfLocalUser ==
    last.op = "SyncOverseerrRequests" =>
        /\ "overseerr" \notin cfg => last.ret = "nil" /\ last.changed = {}
        /\ "overseerr" \in cfg /\ last.ret = "nil" =>
              /\ \A req \in overseerr, m \in media_items :
                    RequestFor(req, m) /\ req.requestedBy \in users =>
                        /\ m.overseerr_request_id = req.id
                        /\ m.requested_by_user_id = req.requestedBy
              /\ \A m \in media_items :
                    m.id \in last.changed => \E req \in overseerr : RequestFor(req, m)

(***************************************************************************)
(* Claims about the rows of media_items.                                   *)
(***************************************************************************)
\* C19: every row of media_items has exactly one of sonarr_id and radarr_id
\* set: sonarr_id exactly when its type is 'series', radarr_id exactly when its
\* type is 'movie'; no media-manager pass, SyncAll or request-linking pass
\* leaves a row otherwise.
C19_OneManagerIDByType ==
    \A m \in media_items :
        /\ m.type \in {"series", "movie"}
        /\ (m.sonarr_id # NULL) <=> (m.type = "series")
        /\ (m.radarr_id # NULL) <=> (m.type = "movie")
        /\ (m.sonarr_id # NULL) # (m.radarr_id # NULL)

\* A request-linking pass has changed a row while the store holds a series and
\* a movie that have the same external id and the same title.
C19_Witness ==
    /\ last.op = "SyncOverseerrRequests"
    /\ last.changed # {}
    /\ \E s, m \in media_items :
          /\ s.type = "series" /\ m.type = "movie"
          /\ s.tvdb_id = m.tmdb_id
          /\ s.title = m.title

(***************************************************************************)
(* SpecConcurrent: the periodic pass and a dashboard-triggered pass run at *)
(* the same time over the same remote lists.  Each pass is SyncAll and     *)
(* then SyncFromQBittorrent; a step is one database statement.  The        *)
(* matching queries of one torrent are one step: while a torrent pass is   *)
(* under way both passes are past their first media-manager loops, so the  *)
(* rows they read are not changing in any column they read.                *)
(***************************************************************************)
Stages == <<"SyncFromSonarr", "SyncFromRadarr", "SyncOverseerrRequests",
            "SyncFromQBittorrent", "done">>

\* A pass about to call the n-th stage.
AtStage(n) ==
    [stage |-> Stages[n], n |-> n, at |-> IF n = Len(Stages) THEN "done" ELSE "fetch",
     todo |-> << >>, found |-> {}, link |-> NULL, exists |-> FALSE, cur |-> NULL]

\* A pass after the loop iteration for Head(todo): the next iteration, or the
\* next stage after the last one.
NextItem(proc) ==
    IF Len(proc.todo) > 1
    THEN [AtStage(proc.n) EXCEPT !.at = "lookup", !.todo = Tail(proc.todo)]
    ELSE AtStage(proc.n + 1)

\* The remote list a stage fetches, in the order of the answer.
RECURSIVE ByHash(_)
ByHash(S) ==
    IF S = {} THEN << >>
    ELSE LET x == CHOOSE y \in S : TRUE IN <<x>> \o ByHash(S \ {x})

Fetched(stage) ==
    CASE stage = "SyncFromSonarr" -> ById(sonarr)
      [] stage = "SyncFromRadarr" -> ById(radarr)
      [] stage = "SyncOverseerrRequests" -> ById(overseerr)
      [] stage = "SyncFromQBittorrent" -> ByHash(qbt)

Running(p, stage, at) ==
    /\ p \in DOMAIN passes.proc
    /\ passes.proc[p].stage \in stage
    /\ passes.proc[p].at = at

Step(p, proc) ==
    /\ passes' = [passes EXCEPT !.proc[p] = proc]
    /\ last' = [Blank EXCEPT !.op = passes.proc[p].stage, !.id = p]
    /\ UNCHANGED <<cfg, seeding_overrides, session, settings, scheduler, audit_logs, external>>

\* GetSeries, GetMovies, GetRequests, GetTorrents (and GetIndexers).
Fetch(p) ==
    /\ Running(p, {"SyncFromSonarr", "SyncFromRadarr", "SyncOverseerrRequests",
                   "SyncFromQBittorrent"}, "fetch")
    /\ LET proc == passes.proc[p]
           list == Fetched(proc.stage)
       IN  Step(p, IF list = << >> THEN AtStage(proc.n + 1)
                   ELSE [proc EXCEPT !.at = "lookup", !.todo = list])
    /\ UNCHANGED <<media_items, media_seq, torrents>>

\* SELECT id FROM media_items WHERE sonarr_id = $1 (radarr_id = $1).
MediaLookup(p) ==
    /\ Running(p, {"SyncFromSonarr", "SyncFromRadarr"}, "lookup")
    /\ LET proc == passes.proc[p]
           it == Head(proc.todo)
       IN  Step(p, [proc EXCEPT !.at = "write",
                       !.found = IF proc.stage = "SyncFromSonarr"
                                 THEN LookupSonarr(Store, it.id)
                                 ELSE LookupRadarr(Store, it.id)])
    /\ UNCHANGED <<media_items, media_seq, torrents>>

\* The INSERT ... ON CONFLICT or the UPDATE the lookup's answer leads to.
MediaWrite(p) ==
    /\ Running(p, {"SyncFromSonarr", "SyncFromRadarr"}, "write")
    /\ LET proc == passes.proc[p]
           it == Head(proc.todo)
           st == IF proc.found # {}
                 THEN UpdateMedia(Store, CHOOSE i \in proc.found : TRUE,
                                  it.title, it.path, it.size)
                 ELSE IF proc.stage = "SyncFromSonarr" THEN UpsertSonarr(Store, it)
                 ELSE UpsertRadarr(Store, it)
       IN  /\ media_items' = st.items
           /\ media_seq' = st.seq
           /\ Step(p, NextItem(proc))
    /\ UNCHANGED torrents

\* SELECT id FROM media_items WHERE tmdb_id (tvdb_id) = $1 AND type = ...
RequestLookup(p) ==
    /\ Running(p, {"SyncOverseerrRequests"}, "lookup")
    /\ LET proc == passes.proc[p]
           ids == RequestTargets(media_items, Head(proc.todo))
       IN  IF ids = {} THEN Step(p, NextItem(proc))
           ELSE \E id \in ids : Step(p, [proc EXCEPT !.at = "write", !.found = {id}])
    /\ UNCHANGED <<media_items, media_seq, torrents>>

\* UPDATE media_items SET overseerr_request_id, requested_by_user_id.
RequestWrite(p) ==
    /\ Running(p, {"SyncOverseerrRequests"}, "write")
    /\ LET proc == passes.proc[p]
       IN  /\ media_items' = LinkRequest(media_items, CHOOSE i \in proc.found : TRUE,
                                         Head(proc.todo))
           /\ Step(p, NextItem(proc))
    /\ UNCHANGED <<media_seq, torrents>>

\* The matching queries for one torrent.
TorrentResolve(p) ==
    /\ Running(p, {"SyncFromQBittorrent"}, "lookup")
    /\ LET proc == passes.proc[p]
       IN  \E link \in ResolveMedia(media_items, Head(proc.todo)) :
               Step(p, [proc EXCEPT !.at = "exists", !.link = link])
    /\ UNCHANGED <<media_items, media_seq, torrents>>

\* SELECT hash FROM torrents WHERE hash = $1.
TorrentExists(p) ==
    /\ Running(p, {"SyncFromQBittorrent"}, "exists")
    /\ LET proc == passes.proc[p]
           exists == \E r \in torrents : r.hash = Head(proc.todo).hash
       IN  Step(p, [proc EXCEPT !.exists = exists,
                       !.at = IF exists /\ proc.link # NULL THEN "current" ELSE "write"])
    /\ UNCHANGED <<media_items, media_seq, torrents>>

\* SELECT media_item_id FROM torrents WHERE hash = $1.
TorrentCurrent(p) ==
    /\ Running(p, {"SyncFromQBittorrent"}, "current")
    /\ LET proc == passes.proc[p]
           row == CHOOSE r \in torrents : r.hash = Head(proc.todo).hash
       IN  Step(p, [proc EXCEPT !.at = "write", !.cur = row.media_item_id])
    /\ UNCHANGED <<media_items, media_seq, torrents>>

\* INSERT INTO torrents, rejected by UNIQUE (hash) when the hash has a row by
\* now, or UPDATE torrents SET media_item_id = COALESCE($2, media_item_id), ...
TorrentWrite(p) ==
    /\ Running(p, {"SyncFromQBittorrent"}, "write")
    /\ LET proc == passes.proc[p]
           t == Head(proc.todo)
           new == TorrentRow({}, t, proc.link, prowlarr)
           mediaIDVal == IF proc.exists /\ proc.link # NULL
                         THEN UpdatedLink(proc.cur, proc.link) ELSE NULL
       IN  /\ torrents' =
                 IF ~proc.exists
                 THEN (IF \E r \in torrents : r.hash = t.hash
                       THEN torrents ELSE torrents \cup {new})
                 ELSE {IF r.hash = t.hash
                       THEN [new EXCEPT !.media_item_id =
                                IF mediaIDVal # NULL THEN mediaIDVal
                                ELSE r.media_item_id]
                       ELSE r : r \in torrents}
           /\ Step(p, NextItem(proc))
    /\ UNCHANGED <<media_items, media_seq>>

\* The stores the passes of these runs start from: nothing synced yet, and a
\* store last synced when the series and the film had other titles and paths
\* and the torrent was not matched.
StartStores ==
    {[items |-> {}, seq |-> 0, torrents |-> {}],
     [items |-> {MediaRow(1, tB, "series", NULL, 7, 1, NULL, pSeries, 0),
                 MediaRow(2, tA, "movie", 7, NULL, NULL, 1, pM, 0)},
      seq |-> 2,
      torrents |-> {TorrentRow({}, Torrent("h1", Empty, pX, Empty, "pausedUP", 0, 0),
                               NULL, {})}]}

InitConcurrent ==
    /\ cfg = AllIntegrations
    /\ sonarr = {Series(1, tA, 1)}
    /\ radarr = {Movie(1, tB, pX, 1)}
    /\ overseerr = {Request(1, "movie", "movie", 7, NULL, 1)}
    /\ qbt = {Torrent("h1", Empty, pX, Empty, "uploading", 1, 1)}
    /\ prowlarr = {}
    /\ disk = {}
    /\ seeding_overrides = {}
    /\ session = NoSession
    /\ settings = {}
    /\ scheduler = << >>
    /\ audit_logs = << >>
    /\ last = Blank
    /\ \E start \in StartStores, n \in 1..2 :
          /\ media_items = start.items
          /\ media_seq = start.seq
          /\ torrents = start.torrents
          /\ passes = [start |-> start, proc |-> [p \in 1..n |-> AtStage(1)]]

NextConcurrent ==
    \E p \in 1..2 :
        \/ Fetch(p)
        \/ MediaLookup(p)
        \/ MediaWrite(p)
        \/ RequestLookup(p)
        \/ RequestWrite(p)
        \/ TorrentResolve(p)
        \/ TorrentExists(p)
        \/ TorrentCurrent(p)
        \/ TorrentWrite(p)

SpecConcurrent == InitConcurrent /\ [][NextConcurrent]_vars

(***************************************************************************)
(* Claims about concurrent passes.                                         *)
(***************************************************************************)
\* The stores one pass alone, SyncAll and then SyncFromQBittorrent, may leave
\* when it starts from start.
SinglePassResults(start) ==
    LET a == SyncFromSonarrResult([items |-> start.items, seq |-> start.seq], TRUE).st
        b == SyncFromRadarrResult(a, TRUE).st
    IN  UNION {{[items |-> r.items, torrents |-> rows] :
                   rows \in TorrentLoop(start.torrents, r.items, qbt, prowlarr)} :
               r \in SyncOverseerrRequestsResult(b.items, TRUE)}

\* Every pass of the run has returned.
AllDone == \A p \in DOMAIN passes.proc : passes.proc[p].stage = "done"

\* At most one torrents row per hash.
OneRowPerHash == \A r, s \in torrents : r.hash = s.hash => r = s

\* A store with the generated ids left out: media rows without their id, and
\* torrent rows with the manager identity of the linked media row as link.
WithoutIDs(st) ==
    LET key(id) == IF id = NULL THEN <<"none", NULL, NULL>>
                   ELSE LET m == CHOOSE x \in st.items : x.id = id
                        IN  <<m.type, m.sonarr_id, m.radarr_id>>
    IN  [items |-> {[m EXCEPT !.id = 0] : m \in st.items},
         torrents |-> {[hash |-> r.hash, link |-> key(r.media_item_id),
                        row |-> [r EXCEPT !.media_item_id = NULL]] : r \in st.torrents}]

\* C20 as stated: two passes at once, their statements interleaved in any
\* order, end with the rows of media_items and torrents one pass alone can end
\* with, and at no time are there two media_items rows with one manager id or
\* two torrents rows with one hash.
C20_ConcurrentAsSinglePass ==
    /\ OneRowPerManagerID
    /\ OneRowPerHash
    /\ AllDone => [items |-> media_items, torrents |-> torrents]
                      \in SinglePassResults(passes.start)

\* C20 up to generated ids: two passes at once end with rows one pass alone
\* can end with except for the ids of the media_items rows inserted during the
\* passes (and the torrent links that carry them), and at no time are there
\* two media_items rows with one manager id or two torrents rows with one hash.
C20_SameUpToGeneratedIDs ==
    /\ OneRowPerManagerID
    /\ OneRowPerHash
    /\ AllDone => WithoutIDs([items |-> media_items, torrents |-> torrents])
                      \in {WithoutIDs(s) : s \in SinglePassResults(passes.start)}

\* Two passes have ended after both found a series missing and both inserted
\* it: the losing INSERT took a value of the id sequence.
C20_Witness ==
    /\ DOMAIN passes.proc = 1..2
    /\ AllDone
    /\ passes.start.items = {}
    /\ media_seq > Cardinality(media_items)
    /\ \E r \in torrents : r.media_item_id # NULL

(***************************************************************************)
(* SpecRace: deletions while a sync pass is under way statement by         *)
(* statement, and whole media-manager passes between deletions.            *)
(***************************************************************************)
\* How the media manager answers the deletions of these runs; every other
\* call succeeds.
RaceOutcomes ==
    {o \in DeleteOutcomes :
        o.fs = "ok" /\ o.rmFind /\ o.rmDelete /\ o.tcFail = {}}

InitRace ==
    /\ cfg = AllIntegrations
    /\ sonarr = {Series(1, tA, 1)}
    /\ radarr = {Movie(1, tB, pXf, 1)}
    /\ overseerr = {}
    /\ qbt = {}
    /\ prowlarr = {}
    /\ disk = {Entry(pX, TRUE), Entry(pXf, FALSE), Entry(pS, TRUE)}
    /\ LET a == SyncFromSonarrResult([items |-> {}, seq |-> 0], TRUE).st
           b == SyncFromRadarrResult(a, TRUE).st
       IN  /\ media_items = b.items
           /\ media_seq = b.seq
           /\ passes = [start |-> [items |-> b.items, seq |-> b.seq, torrents |-> {}],
                        proc |-> <<AtStage(1)>>]
    /\ torrents = {}
    /\ audit_logs = << >>
    /\ seeding_overrides = {}
    /\ session = NoSession
    /\ settings = {}
    /\ scheduler = << >>
    /\ last = Blank

NextRace ==
    \/ Fetch(1)
    \/ MediaLookup(1)
    \/ MediaWrite(1)
    \/ \E ok \in BOOLEAN : SyncFromSonarr(ok)
    \/ \E ok \in BOOLEAN : SyncFromRadarr(ok)
    \/ \E id \in 1..MaxMediaID, u \in users, o \in RaceOutcomes :
          handleDeleteMediaHTMX(id, u, o)

SpecRace == InitRace /\ [][NextRace]_vars

(***************************************************************************)
(* Claims about deletions and sync passes together.                        *)
(***************************************************************************)
\* Media manager A (B) lists an entry with this id.
Listed(type, id) ==
    IF type = "series" THEN \E x \in sonarr : x.id = id
    ELSE \E x \in radarr : x.id = id

\* The rows of items for the entry id of the media manager of this type.
RowsOf(items, type, id) ==
    {m \in items : IF type = "series" THEN m.sonarr_id = id ELSE m.radarr_id = id}

\* The pass makes the write of its current loop iteration in this step.
WritesNow(p) ==
    /\ Running(p, {"SyncFromSonarr", "SyncFromRadarr"}, "write")
    /\ passes'.proc[p] = NextItem(passes.proc[p])

\* C21: nothing keeps a sync pass and a deletion apart.  A pass that fetched
\* the media manager's list and found no row for an entry makes its insert
\* whatever was deleted in between, and the entry has a row afterwards; so a
\* pass that fetched before a deletion and looks the entry up after the row
\* is gone leaves, when both have finished, a row for the deleted entry.
C21_InsertAfterDelete ==
    [][\A p \in DOMAIN passes.proc :
          WritesNow(p) /\ passes.proc[p].found = {} =>
              LET type == IF passes.proc[p].stage = "SyncFromSonarr"
                          THEN "series" ELSE "movie"
              IN  RowsOf(media_items', type, Head(passes.proc[p].todo).id) # {}]_vars

\* The pass has finished and the deletion has finished, the media manager no
\* longer lists the series, and media_items has a row for it again, with an id
\* generated after the deletion.
C21_Witness ==
    /\ passes.proc[1].stage = "done"
    /\ ~Listed("series", 1)
    /\ \E m \in RowsOf(media_items, "series", 1) : m.id > passes.start.seq
    /\ last.op = "SyncFromQBittorrent"
    /\ last.id = 1

\* Step s is among the steps of call c.
Ran(c, s) == \E i \in DOMAIN c.steps : c.steps[i] = s

\* C22: the media-manager step of DeleteMediaItem asks the manager that owns
\* the item for a delete that removes no files and adds no exclusion; it asks
\* for the unmonitor exactly when that delete failed; it records a failure
\* exactly when both failed; and the request-manager, torrent-client, audit
\* and row-deletion steps run whatever happened.
C22_ManagerStepFallback ==
    [][\A c \in FoundCalls(last') :
          LET o == c.answers
              item == CHOOSE m \in media_items : m.id = c.id
              series == item.type = "series"
              mid == IF series THEN item.sonarr_id ELSE item.radarr_id
              listed == Listed(item.type, mid)
              deleteOK == o.mmDelete /\ listed
              unmonitorOK == o.mmUnmonitor /\ listed
              alone == last'.op = "handleDeleteMediaHTMX"
          IN  /\ Ran(c, "DeleteSeries") <=> series
              /\ Ran(c, "DeleteMovie") <=> ~series
              /\ c.excluded = {}
              /\ (alone /\ o.fs = "fail" /\ c.hashes \subseteq o.tcFail) => disk' = disk
              /\ deleteOK => IF series THEN \A x \in sonarr' : x.id # mid
                             ELSE \A x \in radarr' : x.id # mid
              /\ (Ran(c, "UnmonitorSeries") \/ Ran(c, "UnmonitorMovie")) <=> ~deleteOK
              /\ Ran(c, "UnmonitorSeries") => series
              /\ Ran(c, "UnmonitorMovie") => ~series
              /\ Names(c, {"Sonarr", "Radarr"}) <=> (~deleteOK /\ ~unmonitorOK)
              /\ Ran(c, "FindRequestByMediaID") \/ Ran(c, "DeleteRequest")
              /\ Ran(c, "SELECT hash")
              /\ Ran(c, "INSERT audit_logs")
              /\ Ran(c, "DELETE media_items")
              /\ \A m \in media_items' : m.id # c.id]_vars

\* A deletion whose delete at the media manager failed and whose unmonitor
\* succeeded: no failure of the manager step is recorded, the manager still
\* lists the entry and the row is gone.
C22_Witness ==
    /\ last.op = "handleDeleteMediaHTMX"
    /\ \E c \in FoundCalls(last) :
          /\ Ran(c, "DeleteMovie") /\ Ran(c, "UnmonitorMovie")
          /\ ~Names(c, {"Sonarr", "Radarr"})
          /\ Listed("movie", c.manager[3])
          /\ Ran(c, "DeleteTorrent")
          /\ \A m \in media_items : m.id # c.id

(***************************************************************************)
(* SpecDiscover: deletions of items that carry no request id, over request *)
(* lists with typed and untyped requests, several requests for one title   *)
(* and requesters that are or are not rows of users.                       *)
(***************************************************************************)
\* The requests of these runs: for the film (1, 4), for the series by its
\* nested type (2) or by the type 'series' (6), with no type at all (3), and
\* for the film by a requester that is no row of users (5).
RequestPool ==
    {Request(1, "movie", "movie", 7, NULL, 1), Request(2, "", "tv", 0, 7, 1),
     Request(3, "", "", 7, 7, 1), Request(4, "movie", "", 7, NULL, 1),
     Request(5, "movie", "", 7, NULL, 2), Request(6, "series", "", 0, 7, 1),
     Request(7, "tv", "", 8, 8, 1)}

DiscoverLists == {l \in SUBSET RequestPool : Cardinality(l) \in 1..2}

\* The deletions of these runs: every call succeeds, or the media manager
\* refuses the delete and unmonitors.
DiscoverOutcomes == {o \in RaceOutcomes : o.mmUnmonitor}

InitDiscover ==
    /\ cfg = AllIntegrations
    /\ sonarr = {Series(1, tA, 1)}
    /\ radarr = {Movie(1, tB, pXf, 1)}
    /\ overseerr \in DiscoverLists
    /\ qbt = {}
    /\ prowlarr = {}
    /\ disk = {}
    /\ LET a == SyncFromSonarrResult([items |-> {}, seq |-> 0], TRUE).st
           b == SyncFromRadarrResult(a, TRUE).st
       IN  /\ media_items = b.items
           /\ media_seq = b.seq
    /\ torrents = {}
    /\ audit_logs = << >>
    /\ seeding_overrides = {}
    /\ session = NoSession
    /\ settings = {}
    /\ scheduler = << >>
    /\ passes = << >>
    /\ last = Blank

NextDiscover ==
    \/ \E ok \in BOOLEAN : SyncOverseerrRequests(ok)
    \/ \E ok \in BOOLEAN : SyncFromRadarr(ok)
    \/ \E id \in 1..MaxMediaID, u \in users, o \in DiscoverOutcomes :
          handleDeleteMediaHTMX(id, u, o)

SpecDiscover == InitDiscover /\ [][NextDiscover]_vars

(***************************************************************************)
(* Claims about request discovery.                                         *)
(***************************************************************************)
\* The request ids SyncOverseerrRequests may leave on row id of items, NULL
\* for none, when it runs over the list reqs.
LinkedBySync(items, reqs, id) ==
    {m.overseerr_request_id :
        m \in UNION {{x \in it : x.id = id} : it \in OverseerrLoop(items, ById(reqs))}}

\* The request id the deletion recorded as c looked up, NULL when its lookup
\* found none.
Discovered(c) == IF c.request > 0 THEN c.request ELSE NULL

\* The call recorded as c was for a row without a stored request id.
Discovers(c) ==
    /\ Ran(c, "FindRequestByMediaID")
    /\ \E m \in media_items : m.id = c.id /\ m.overseerr_request_id = NULL

SameExternalID(req, m) ==
    \/ m.type = "movie" /\ m.tmdb_id # NULL /\ m.tmdb_id > 0 /\ req.tmdbId = m.tmdb_id
    \/ m.type = "series" /\ m.tvdb_id # NULL /\ m.tvdb_id > 0 /\ req.tvdbId = m.tvdb_id

MentionsPublic(reason) == reason \in {"Public tracker - eligible"}

\* C24: when the item is not eligible CheckEligibility gives the reason of a
\* linked row that fails, the first one met; when it is eligible it gives a
\* reason the per-torrent check gave for a linked row, and for an item whose
\* only row is on a public tracker with no required time or ratio, seeding
\* time 0 and ratio 0, it answers eligible with a reason that has 'public'.
C24_ReasonOfTorrentShown ==
    Checked =>
        LET linked == {r \in torrents : r.media_item_id = last.id}
        IN  /\ (~last.eligible /\ linked # {}) =>
                  \E r \in linked : /\ ~checkTorrentEligibility(r).ok
                                    /\ last.reason = checkTorrentEligibility(r).reason
            /\ last.eligible =>
                  \E r \in linked : last.reason = checkTorrentEligibility(r).reason
            /\ \A r \in linked :
                  (/\ OnlyRow(r)
                   /\ r.tracker_type = "public"
                   /\ r.seeding_required_seconds = NULL
                   /\ r.seeding_required_ratio = NULL
                   /\ r.seeding_time_seconds = 0
                   /\ r.ratio = 0)
                  => last.eligible /\ MentionsPublic(last.reason)

\* The first part of it: the reason of an item that is not eligible is the
\* reason of a linked row that fails.
ReasonOfFailingTorrentShown ==
    Checked =>
        LET linked == {r \in torrents : r.media_item_id = last.id}
        IN  (~last.eligible /\ linked # {}) =>
                \E r \in linked : /\ ~checkTorrentEligibility(r).ok
                                  /\ last.reason = checkTorrentEligibility(r).reason

(***************************************************************************)
(* SpecSession: the torrent-client adapter and its session cookie.         *)
(* session.sid is the adapter's field sid; live, issued, up and accepts    *)
(* are the torrent client's side: the sessions it still accepts, how many  *)
(* it has issued, whether it answers at all, and whether it accepts the    *)
(* configured credentials.                                                 *)
(***************************************************************************)
SIDs == <<"sid1", "sid2", "sid3">>

Response(status) == [status |-> status, err |-> FALSE]

TransportError == [status |-> "", err |-> TRUE]

\* login: POST /auth/login.  The SID cookie of the response is stored
\* whatever the status is; an error is returned unless the status is 200.
\* The torrent client answers 200 with a fresh SID cookie when it accepts the
\* credentials and 200 without a cookie when it does not.
login(s) ==
    IF ~s.up THEN [s |-> s, ret |-> "err"]
    ELSE IF s.accepts
    THEN [s |-> [s EXCEPT !.sid = SIDs[s.issued + 1],
                          !.live = @ \cup {SIDs[s.issued + 1]},
                          !.issued = @ + 1],
          ret |-> "nil"]
    ELSE [s |-> s, ret |-> "nil"]

ensureLoggedIn(s) ==
    IF s.sid = "" THEN login(s) ELSE [s |-> s, ret |-> "nil"]

\* makeRequest: one request carrying the stored cookie; the response is
\* handed to the caller whatever its status is.
makeRequest(s) ==
    LET r == ensureLoggedIn(s)
    IN  IF r.ret # "nil" THEN [s |-> r.s, resp |-> TransportError, logins |-> 0]
        ELSE [s |-> r.s,
              resp |-> IF ~r.s.up THEN TransportError
                       ELSE IF r.s.sid \in r.s.live THEN Response("200")
                       ELSE Response("403"),
              logins |-> r.s.issued - s.issued]

Answered(q) == ~q.resp.err /\ q.resp.status = "200"

GetTorrents ==
    LET q == makeRequest(session)
    IN  /\ session.issued < Len(SIDs)
        /\ session' = q.s
        /\ last' = [Blank EXCEPT !.op = "GetTorrents",
                       !.ret = IF Answered(q) THEN "nil" ELSE "err",
                       !.reason = q.resp.status,
                       !.nth = q.logins,
                       !.changed = IF Answered(q) THEN {t.hash : t \in qbt} ELSE {}]
        /\ UNCHANGED <<cfg, seeding_overrides, passes, settings, scheduler, media_items,
                       media_seq, torrents, audit_logs, external>>

\* DeleteTorrent(hash, true): the torrent client removes the torrent and its
\* files.
DeleteTorrent(hash) ==
    LET q == makeRequest(session)
        paths == {t.contentPath : t \in {x \in qbt : x.hash = hash}}
    IN  /\ session.issued < Len(SIDs)
        /\ session' = q.s
        /\ qbt' = IF Answered(q) THEN {t \in qbt : t.hash # hash} ELSE qbt
        /\ disk' = IF Answered(q)
                   THEN {e \in disk : \A cp \in paths :
                            cp = Empty \/ (e.path # cp /\ ~Below(cp, e))}
                   ELSE disk
        /\ last' = [Blank EXCEPT !.op = "DeleteTorrent",
                       !.ret = IF Answered(q) THEN "nil" ELSE "err",
                       !.reason = q.resp.status,
                       !.nth = q.logins,
                       !.changed = IF Answered(q) THEN {hash} ELSE {}]
        /\ UNCHANGED <<cfg, seeding_overrides, passes, settings, scheduler, media_items,
                       media_seq, torrents, audit_logs, sonarr, radarr, overseerr,
                       prowlarr>>

\* The torrent client stops accepting a session: it timed out, or the
\* torrent client was restarted (all = TRUE) and forgot every session.
SessionExpires(all) ==
    /\ session.live # {}
    /\ \E x \in session.live :
          session' = [session EXCEPT !.live = IF all THEN {} ELSE @ \ {x}]
    /\ last' = Env
    /\ UNCHANGED <<cfg, seeding_overrides, passes, settings, scheduler, media_items,
                   media_seq, torrents, audit_logs, external>>

\* The torrent client becomes unreachable or reachable again, or its
\* credentials are changed away from or back to the configured ones.
TorrentClientSet(up, accepts) ==
    /\ <<up, accepts>> # <<session.up, session.accepts>>
    /\ session' = [session EXCEPT !.up = up, !.accepts = accepts]
    /\ last' = Env
    /\ UNCHANGED <<cfg, seeding_overrides, passes, settings, scheduler, media_items,
                   media_seq, torrents, audit_logs, external>>

SessionHashes == {"h1", "h2"}

InitSession ==
    /\ cfg = AllIntegrations
    /\ media_items = {}
    /\ media_seq = 0
    /\ torrents = {}
    /\ audit_logs = << >>
    /\ seeding_overrides = {}
    /\ passes = << >>
    /\ session = NoSession
    /\ settings = {}
    /\ scheduler = << >>
    /\ sonarr = {}
    /\ radarr = {}
    /\ overseerr = {}
    /\ qbt = {Torrent("h1", nB, pX, Empty, "uploading", 0, 0),
              Torrent("h2", nA, Empty, Empty, "stalledUP", 0, 0)}
    /\ prowlarr = {}
    /\ disk = {Entry(pX, TRUE), Entry(pXf, FALSE)}
    /\ last = Blank

NextSession ==
    \/ GetTorrents
    \/ \E hash \in SessionHashes : DeleteTorrent(hash)
    \/ \E all \in BOOLEAN : SessionExpires(all)
    \/ \E up, accepts \in BOOLEAN : TorrentClientSet(up, accepts)

SpecSession == InitSession /\ [][NextSession]_vars

AdapterCalls == {"GetTorrents", "DeleteTorrent"}

\* The stored session cookie is one the torrent client no longer accepts.
Expired(s) == s.sid # "" /\ s.sid \notin s.live

\* C25: a call of the adapter made while the stored session has expired, to
\* a torrent client that is reachable and accepts the credentials, logs in
\* again exactly once and succeeds; so an expired session does not make the
\* later GetTorrents and DeleteTorrent calls fail.
C25_ExpiredSessionRecovered ==
    [][(last'.op \in AdapterCalls /\ Expired(session)
            /\ session.up /\ session.accepts)
          => (last'.ret = "nil" /\ last'.nth = 1)]_vars

\* What the adapter does: the session cookie, once stored, is never
\* replaced, and a call made while it is not accepted fails.
SessionNeverRenewed ==
    [][(last'.op \in AdapterCalls /\ session.sid # "")
          => /\ session'.sid = session.sid
             /\ last'.nth = 0
             /\ (Expired(session) => last'.ret = "err")]_vars

(***************************************************************************)
(* SpecScheduler: the periodic scheduler and the sync-interval setting.    *)
(* Durations and the clock are counted in milliseconds.  scheduler.ticker  *)
(* and scheduler.frequencyCheck are the times at which the two tickers     *)
(* fire next; the loop handles the ticks in the order of their times.      *)
(***************************************************************************)
Minute == 60000

DefaultFrequency == 5 * Minute

MaxNow == 6 * Minute

DigitChars == <<"0", "1", "2", "3", "4", "5", "6", "7", "8", "9">>

IsDigit(c) == \E i \in 1..10 : DigitChars[i] = c

DigitValue(c) == (CHOOSE i \in 1..10 : DigitChars[i] = c) - 1

\* The units of time.ParseDuration that are whole milliseconds.
unitMap ==
    [u \in {<<"m", "s">>, <<"s">>, <<"m">>, <<"h">>} |->
        IF u = <<"m", "s">> THEN 1
        ELSE IF u = <<"s">> THEN 1000
        ELSE IF u = <<"m">> THEN Minute
        ELSE 60 * Minute]

\* How many characters at the start of s are digits (are not digits).
RECURSIVE LeadingDigits(_)
LeadingDigits(s) ==
    IF s = << >> \/ ~IsDigit(Head(s)) THEN 0 ELSE 1 + LeadingDigits(Tail(s))

RECURSIVE LeadingUnit(_)
LeadingUnit(s) ==
    IF s = << >> \/ IsDigit(Head(s)) THEN 0 ELSE 1 + LeadingUnit(Tail(s))

RECURSIVE Number(_, _)
Number(s, acc) ==
    IF s = << >> THEN acc ELSE Number(Tail(s), 10 * acc + DigitValue(Head(s)))

ParseError == [err |-> TRUE, d |-> 0]

\* The loop of time.ParseDuration: a number and its unit, again and again.
RECURSIVE ParseGroups(_, _)
ParseGroups(s, d) ==
    IF s = << >> THEN [err |-> FALSE, d |-> d]
    ELSE LET n == LeadingDigits(s)
             rest == SubSeq(s, n + 1, Len(s))
             u == LeadingUnit(rest)
             unit == SubSeq(rest, 1, u)
         IN  IF n = 0 \/ u = 0 \/ unit \notin DOMAIN unitMap THEN ParseError
             ELSE ParseGroups(SubSeq(rest, u + 1, Len(rest)),
                              d + Number(SubSeq(s, 1, n), 0) * unitMap[unit])

\* time.ParseDuration: an optional sign, then "0" or groups of number and
\* unit.
ParseDuration(s) ==
    LET signed == s # << >> /\ Head(s) \in {"-", "+"}
        neg == signed /\ Head(s) = "-"
        body == IF signed THEN Tail(s) ELSE s
        r == ParseGroups(body, 0)
    IN  IF body = <<"0">> THEN [err |-> FALSE, d |-> 0]
        ELSE IF body = << >> THEN ParseError
        ELSE IF r.err THEN ParseError
        ELSE [err |-> FALSE, d |-> IF neg THEN 0 - r.d ELSE r.d]

Setting(key, value) == [key |-> key, value |-> value]

\* SELECT value FROM settings WHERE key = ...: the values found.
ValuesOf(key) == {row.value : row \in {x \in settings : x.key = key}}

\* setSetting: INSERT ... ON CONFLICT (key) DO UPDATE SET value.
setSetting(key, value) ==
    {row \in settings : row.key # key} \cup {Setting(key, value)}

\* handleUpdateSettings, for a request that carries sync_frequency only.
handleUpdateSettings(syncFreq) ==
    /\ scheduler.alive
    /\ settings' = IF ParseDuration(syncFreq).err THEN settings
                   ELSE setSetting("sync_frequency", syncFreq)
    /\ last' = [Blank EXCEPT !.op = "handleUpdateSettings",
                   !.ret = IF ParseDuration(syncFreq).err THEN "400" ELSE "200"]
    /\ UNCHANGED <<cfg, seeding_overrides, passes, session, scheduler, media_items,
                   media_seq, torrents, audit_logs, external>>

\* The interval the frequency check reads: the stored value when there is
\* one, it is not empty and it parses, the default otherwise.
newFrequency ==
    LET found == ValuesOf("sync_frequency")
        syncFrequencyStr == CHOOSE v \in found : TRUE
    IN  IF found = {} \/ syncFrequencyStr = Empty THEN DefaultFrequency
        ELSE IF ParseDuration(syncFrequencyStr).err THEN DefaultFrequency
        ELSE ParseDuration(syncFrequencyStr).d

\* time.NewTicker(d) at time now: it panics unless d is positive, and the
\* panic, which nothing recovers, ends the process.
NewTicker(s, d) ==
    IF d <= 0 THEN [s EXCEPT !.alive = FALSE]
    ELSE [s EXCEPT !.ticker = s.now + d]

\* The frequency check that leaves the primary ticker as it is.
FrequencyCheckKeepsTicker ==
    /\ scheduler.alive
    /\ scheduler.frequencyCheck <= scheduler.ticker
    /\ scheduler.frequencyCheck <= MaxNow
    /\ scheduler' = [scheduler EXCEPT !.now = scheduler.frequencyCheck,
                                      !.frequencyCheck = @ + Minute,
                                      !.currentFrequency = newFrequency]
    /\ last' = [Blank EXCEPT !.op = "frequencyCheck"]
    /\ UNCHANGED <<cfg, seeding_overrides, passes, session, settings, media_items,
                   media_seq, torrents, audit_logs, external>>

\* case <-frequencyCheck.C of startPeriodicSync.
FrequencyCheck ==
    /\ scheduler.alive
    /\ scheduler.frequencyCheck <= scheduler.ticker
    /\ scheduler.frequencyCheck <= MaxNow
    /\ LET at == [scheduler EXCEPT !.now = scheduler.frequencyCheck,
                                   !.frequencyCheck = @ + Minute]
       IN  scheduler' =
              IF newFrequency # scheduler.currentFrequency
              THEN NewTicker([at EXCEPT !.currentFrequency = newFrequency],
                             newFrequency)
              ELSE at
    /\ last' = [Blank EXCEPT !.op = "frequencyCheck"]
    /\ UNCHANGED <<cfg, seeding_overrides, passes, session, settings, media_items,
                   media_seq, torrents, audit_logs, external>>

\* What SyncAll and then SyncFromQBittorrent make of the stores: the
\* possible outcomes.
TickResults(okSonarr, okRadarr, okOverseerr, okFetch, okIndexers) ==
    LET a == IF "sonarr" \in cfg THEN SyncFromSonarrResult(Store, okSonarr)
             ELSE [st |-> Store, ret |-> "skipped"]
        b == IF "radarr" \in cfg THEN SyncFromRadarrResult(a.st, okRadarr)
             ELSE [st |-> a.st, ret |-> "skipped"]
        cs == IF "overseerr" \in cfg
              THEN SyncOverseerrRequestsResult(b.st.items, okOverseerr)
              ELSE {[items |-> b.st.items, ret |-> "skipped"]}
        indexers == IF "prowlarr" \in cfg /\ okIndexers THEN prowlarr ELSE {}
    IN  UNION {IF "qbittorrent" \notin cfg \/ ~okFetch
               THEN {[items |-> c.items, seq |-> b.st.seq, rows |-> torrents,
                      ret |-> "err"]}
               ELSE {[items |-> c.items, seq |-> b.st.seq, rows |-> rows,
                      ret |-> "nil"] :
                        rows \in TorrentLoop(torrents, c.items, qbt, indexers)} :
               c \in cs}

\* case <-ticker.C of startPeriodicSync.
Tick(okSonarr, okRadarr, okOverseerr, okFetch, okIndexers) ==
    /\ scheduler.alive
    /\ scheduler.ticker <= scheduler.frequencyCheck
    /\ scheduler.ticker <= MaxNow
    /\ \E r \in TickResults(okSonarr, okRadarr, okOverseerr, okFetch, okIndexers) :
          /\ r.seq <= MaxMediaID
          /\ media_items' = r.items
          /\ media_seq' = r.seq
          /\ torrents' = r.rows
          /\ last' = [Blank EXCEPT !.op = "tick",
                         !.calls = <<Stage("SyncAll", "nil"),
                                     Stage("SyncFromQBittorrent", r.ret)>>,
                         !.changed = Changed(media_items, r.items)]
    /\ scheduler' = [scheduler EXCEPT !.now = scheduler.ticker,
                                      !.ticker = @ + scheduler.currentFrequency,
                                      !.ticks = @ + 1]
    /\ UNCHANGED <<cfg, seeding_overrides, passes, session, settings, audit_logs,
                   external>>

\* startPeriodicSync before its loop: both tickers are new at time 0.
Started0 ==
    [alive |-> TRUE, now |-> 0, currentFrequency |-> DefaultFrequency,
     ticker |-> DefaultFrequency, frequencyCheck |-> Minute, ticks |-> 0]

\* The values of sync_frequency that requests to the settings endpoint carry.
SyncFrequencyInputs ==
    {<<"3", "0", "s">>, <<"2", "m">>, <<"1", "m", "3", "0", "s">>, <<"5", "m">>,
     <<"0">>, <<"-", "5", "m">>, <<"5">>, <<"m">>, << >>}

\* The settings table when the program starts: no sync_frequency row, or a
\* row whose value is empty, does not parse, or is an interval.
StartSettings ==
    {{}, {Setting("sync_frequency", Empty)}, {Setting("sync_frequency", <<"5">>)},
     {Setting("sync_frequency", <<"2", "m">>)}}

InitScheduler ==
    /\ cfg = AllIntegrations
    /\ media_items = {}
    /\ media_seq = 0
    /\ torrents = {}
    /\ audit_logs = << >>
    /\ seeding_overrides = {}
    /\ passes = << >>
    /\ session = NoSession
    /\ settings \in StartSettings
    /\ scheduler = Started0
    /\ sonarr = {Series(1, tA, 1)}
    /\ radarr = {}
    /\ overseerr = {}
    /\ qbt = {Torrent("h1", tA, Empty, Empty, "uploading", 0, 0)}
    /\ prowlarr = {}
    /\ disk = {}
    /\ last = Blank

NextScheduler ==
    \/ \E syncFreq \in SyncFrequencyInputs : handleUpdateSettings(syncFreq)
    \/ FrequencyCheck
    \/ \E okSonarr, okFetch \in BOOLEAN : Tick(okSonarr, TRUE, TRUE, okFetch, TRUE)

SpecScheduler == InitScheduler /\ [][NextScheduler]_vars

\* The interval a stored sync_frequency stands for: the 5-minute default
\* when the row is missing or its value does not parse.
IntervalStored ==
    LET found == ValuesOf("sync_frequency")
    IN  IF found = {} THEN 5 * Minute
        ELSE LET p == ParseDuration(CHOOSE v \in found : TRUE)
             IN  IF p.err THEN 5 * Minute ELSE p.d

\* The primary ticker is replaced by one of interval d, started now.
TickerReplaced(d) ==
    /\ scheduler'.alive
    /\ scheduler'.currentFrequency = d
    /\ scheduler'.ticker = scheduler'.now + d

TickerKept ==
    /\ scheduler'.alive
    /\ scheduler'.currentFrequency = scheduler.currentFrequency
    /\ scheduler'.ticker = scheduler.ticker

\* A step that is SyncAll followed by SyncFromQBittorrent: the torrent pass
\* works on the media items the three passes of SyncAll left.
SyncAllThenTorrents ==
    \E okSonarr, okRadarr, okOverseerr \in BOOLEAN :
       LET a == SyncFromSonarrResult(Store, okSonarr)
           b == SyncFromRadarrResult(a.st, okRadarr)
       IN  \E c \in SyncOverseerrRequestsResult(b.st.items, okOverseerr) :
              /\ media_items' = c.items
              /\ media_seq' = b.st.seq
              /\ \/ torrents' = torrents
                 \/ \E indexers \in {prowlarr, {}} :
                       torrents' \in TorrentLoop(torrents, c.items, qbt, indexers)

C29_SchedulerNeverStops == scheduler.alive

(***************************************************************************)
(* Claims about what stays deleted.                                        *)
(***************************************************************************)
\* The media manager's id of the item call c deleted.
ManagerIDOf(c) == IF c.manager[1] = "series" THEN c.manager[2] ELSE c.manager[3]

\* Call c deleted an item of a media manager and returned nil.
CleanlyDeleted(c) ==
    /\ c.ret = "nil"
    /\ c.manager[1] \in {"series", "movie"}
    /\ ManagerIDOf(c) # NULL

\* The media manager's hard delete of call c succeeded: the unmonitor
\* fallback was not needed.
HardDeleted(c) ==
    /\ Ran(c, "DeleteSeries") \/ Ran(c, "DeleteMovie")
    /\ ~Ran(c, "UnmonitorSeries") /\ ~Ran(c, "UnmonitorMovie")

\* A media-manager pass that starts and finishes in this step.
PassFromStart == last'.op \in ManagerPasses /\ last'.id = NULL

\* C27: after DeleteMediaItem has returned nil for an item, a media-manager
\* pass that starts afterwards leaves no row for the item's manager id; and
\* only a deletion makes a row disappear.
C27_DeletedStaysDeleted ==
    [][/\ \A c \in FoundCalls(last) :
             (CleanlyDeleted(c) /\ PassFromStart)
                => RowsOf(media_items', c.manager[1], ManagerIDOf(c)) = {}
       /\ last'.op \notin DeleteHandlers
             => \A m \in media_items : \E n \in media_items' : n.id = m.id]_vars

\* C27, for the deletions whose hard delete succeeded: such a deletion that
\* returned nil leaves the media manager without the entry and the store
\* without the row; a media-manager pass that starts while the manager does
\* not list an id leaves the rows of that id as they are, so it creates none;
\* and only a deletion makes a row disappear.
C27_HardDeletedStaysDeleted ==
    [][/\ \A c \in FoundCalls(last') :
             (CleanlyDeleted(c) /\ HardDeleted(c))
                => /\ ~Listed(c.manager[1], ManagerIDOf(c))'
                   /\ \A m \in media_items' : m.id # c.id
       /\ PassFromStart
             => \A type \in {"series", "movie"}, id \in 1..MaxMediaID :
                   ~Listed(type, id)
                      => RowsOf(media_items', type, id) = RowsOf(media_items, type, id)
       /\ last'.op \notin DeleteHandlers
             => \A m \in media_items : \E n \in media_items' : n.id = m.id]_vars

\* The series was deleted (the media manager no longer lists it), a pass of
\* media manager A that started afterwards has succeeded, and there is no row
\* for the series.
C27_Witness ==
    /\ last.op = "SyncFromSonarr"
    /\ last.id = NULL
    /\ last.ret = "nil"
    /\ ~Listed("series", 1)
    /\ RowsOf(media_items, "series", 1) = {}
    /\ Listed("movie", 1)

(***************************************************************************)
(* SpecIndexer: torrent passes whose indexer fetch may fail, over a movie  *)
(* whose torrent is linked to it.                                          *)
(***************************************************************************)
\* What the torrent client holds in the runs of SpecIndexer: one torrent of
\* the movie's file, with its tracker and how long it has seeded.
IndexerClientLists ==
    {{Torrent("h1", Empty, pXf, tr, "uploading", time, time)} :
        tr \in {trk, tYtsMx, tOther}, time \in {0, MaxStat}}

\* What the indexer manager lists in the runs of SpecIndexer.
IndexerManagerLists ==
    {{}, {Indexer(1, trk, "private", 1, NULL)}, {Indexer(1, tYtsMx, "private", 1, 1)},
     {Indexer(2, tYtsMx, "public", NULL, NULL)},
     {Indexer(1, tOther, "semiPrivate", NULL, 1)}}

InitIndexer ==
    /\ cfg = AllIntegrations
    /\ sonarr = {}
    /\ radarr = {Movie(1, tA, pXf, 1)}
    /\ overseerr = {}
    /\ qbt \in IndexerClientLists
    /\ prowlarr \in IndexerManagerLists
    /\ disk = {}
    /\ LET a == SyncFromRadarrResult([items |-> {}, seq |-> 0], TRUE).st
       IN  media_items = a.items /\ media_seq = a.seq
    /\ torrents = {}
    /\ audit_logs = << >>
    /\ seeding_overrides = {}
    /\ passes = << >>
    /\ session = NoSession
    /\ settings = {}
    /\ scheduler = << >>
    /\ last = Blank

NextIndexer ==
    \/ \E list \in IndexerClientLists : QbtSet(list)
    \/ \E list \in IndexerManagerLists : ProwlarrSet(list)
    \/ \E ok, ixOk \in BOOLEAN : SyncFromQBittorrent(ok, ixOk)
    \/ \E id \in 1..MaxMediaID : CheckEligibility(id)

SpecIndexer == InitIndexer /\ [][NextIndexer]_vars

\* This step is a torrent pass whose indexer fetch failed.
IndexerFetchFailed ==
    /\ last'.op = "SyncFromQBittorrent"
    /\ last'.calls = <<Stage("GetIndexers", "err")>>

\* Row n has the tracker type and the requirements of row r.
SameRequirements(r, n) ==
    /\ n.tracker_type = r.tracker_type
    /\ n.seeding_required_seconds = r.seeding_required_seconds
    /\ n.seeding_required_ratio = r.seeding_required_ratio

\* The rows after the step with, for the rows that existed before it, the
\* tracker type and requirements they had before it.
WithStoredRequirements ==
    {IF \E r \in torrents : r.hash = n.hash
     THEN LET r == CHOOSE x \in torrents : x.hash = n.hash
          IN  [n EXCEPT !.tracker_type = r.tracker_type,
                        !.seeding_required_seconds = r.seeding_required_seconds,
                        !.seeding_required_ratio = r.seeding_required_ratio]
     ELSE n : n \in torrents'}

\* CheckEligibility reports the item eligible, given these tables.
EligibleWith(items, rows, id) ==
    \E res \in CheckEligibilityResult(items, rows, id) : res.eligible

\* An item that its stored requirements keep ineligible, given the seeding
\* figures of this pass, is not eligible after the pass.
StaysIneligible ==
    \A m \in media_items :
       ~EligibleWith(media_items, WithStoredRequirements, m.id)
          => ~EligibleWith(media_items', torrents', m.id)

\* C28: a torrent pass whose indexer fetch failed succeeds, leaves tracker
\* type, required seeding time and required ratio of the rows that existed as
\* they were, and so makes no item eligible that those requirements kept
\* ineligible.
C28_FailedFetchKeepsRequirements ==
    [][IndexerFetchFailed
          => /\ last'.ret = "nil"
             /\ \A r \in torrents : \E n \in torrents' :
                   n.hash = r.hash /\ SameRequirements(r, n)
             /\ StaysIneligible]_vars

\* The last part of C28 alone: a pass whose indexer fetch failed makes no item
\* eligible that the stored requirements kept ineligible.
FailedFetchKeepsIneligible ==
    [][IndexerFetchFailed => StaysIneligible]_vars

\* What the pass does when the indexer fetch failed: it succeeds.
FailedFetchIsNotFatal ==
    [][IndexerFetchFailed => last'.ret = "nil"]_vars

(***************************************************************************)
(* Claims about the torrents a deletion removes.                           *)
(***************************************************************************)
\* How many of the calls of DeleteTorrent of call c were for hash h.
TimesAsked(c, h) == Cardinality({i \in DOMAIN c.asked : c.asked[i] = h})

\* C30: DeleteMediaItem(m) asks the torrent client to delete the hashes of
\* the torrent rows linked to m, each of them once whatever the answers for
\* the others, and no other hash; the torrent client loses only torrents
\* among those, the store loses no torrent row that is unlinked or linked to
\* another item, and no other media item row is changed.
C30_ExactlyTheLinkedTorrents ==
    [][last'.op = "handleDeleteMediaHTMX" =>
          \A c \in FoundCalls(last') :
             LET linked == {t.hash : t \in {x \in torrents : x.media_item_id = c.id}}
             IN  /\ c.hashes = linked
                 /\ \A h \in linked : TimesAsked(c, h) = 1
                 /\ \A i \in DOMAIN c.asked : c.asked[i] \in linked
                 /\ qbt' = {t \in qbt : t.hash \notin (linked \ c.answers.tcFail)}
                 /\ \A t \in torrents : t.media_item_id # c.id => t \in torrents'
                 /\ \A m \in media_items : m.id # c.id => m \in media_items']_vars

\* The movie, whose linked torrents were h1 and h3, has been deleted: both
\* were asked for though the call for h1 failed, h3 is gone from the torrent
\* client, h1 and the series' torrent h2 are still there, and row h2 and the
\* series' row are kept.
C30_Witness ==
    /\ last.op = "handleDeleteMediaHTMX"
    /\ \E c \in FoundCalls(last) :
          /\ c.hashes = {"h1", "h3"}
          /\ Len(c.asked) = 2
          /\ c.answers.tcFail = {"h1", "h2"}
    /\ {t.hash : t \in qbt} = {"h1", "h2"}
    /\ \E t \in torrents : t.hash = "h2" /\ t.media_item_id # NULL
    /\ \E m \in media_items : m.type = "series"

====
